---- MODULE Spec2Model ----
(***************************************************************************)
(* Model of the ticket consolidation engine and the ticket renderer of     *)
(* nixos-advisory-survey (src/src/ticket.rs) together with the orderings   *)
(* of the identifier types they rely on (advisory.rs, package.rs,          *)
(* scan.rs), and of the library functions around them: parsing and         *)
(* formatting of advisories, packages and branches, maintainer contacts    *)
(* and the store content matcher (branches.rs, source.rs, filter.rs).      *)
(*                                                                         *)
(* Strings are sequences of byte values, so that the byte-wise             *)
(* lexicographic order of Rust strings and slicing by byte offset are      *)
(* computed and not assumed.  An Option is a sequence of length 0 (None)   *)
(* or 1 (Some).  A HashMap is a function; the order in which the code      *)
(* iterates a HashMap is a nondeterministic choice of a permutation of     *)
(* its keys.  A CVSS score is an integer number of tenths (8.8 is 88).     *)
(***************************************************************************)
EXTENDS Integers, Sequences, FiniteSets, TLC

VARIABLES
    iteration,          \* Roundup::iteration, argument of ticket_list
    scan_res,           \* ScanByBranch: Branch -> Vec<VulnixRes>
    ping_maintainers,   \* Roundup::ping_maintainers, argument of ticket_list
    tickets,            \* Vec<Ticket> returned by ticket_list
    out,                \* result of the last Display of a ticket
    pc,                 \* "start", "listed" once ticket_list has returned,
                        \* "rendered" once a ticket has been formatted,
                        \* "summarised" once a headline has been produced;
                        \* "call" and "returned" around a library function
    call,               \* the function applied and its arguments
    ret,                \* the value the function has returned
    dir,                \* the files of the iteration directory: name -> file
    issues              \* the tracker: ticket name -> issues and comments

vars == <<iteration, scan_res, ping_maintainers, tickets, out, pc, call, ret,
          dir, issues>>

(***************************************************************************)
(* Bounds of the explored inputs.                                          *)
(***************************************************************************)
MaxRes == 2        \* scan results in one ScanByBranch, over all its branches

(***************************************************************************)
(* Generic helpers.                                                        *)
(***************************************************************************)
Range(s) == {s[i] : i \in 1..Len(s)}

SeqsUpTo(n, S) == UNION {[1..m -> S] : m \in 0..n}

\* every order in which the elements of a finite set can be iterated
SeqPerms(S) ==
    {p \in [1..Cardinality(S) -> S] : \A i, j \in 1..Cardinality(S) : p[i] = p[j] => i = j}

\* every reordering of a sequence
PermsOfSeq(s) ==
    {[k \in 1..Len(s) |-> s[p[k]]] : p \in SeqPerms(1..Len(s))}

None == <<>>
Some(x) == <<x>>

\* str::cmp: byte-wise lexicographic order, a proper prefix is smaller
StrLess(s, t) ==
    LET m == IF Len(s) < Len(t) THEN Len(s) ELSE Len(t)
        diff == {i \in 1..m : s[i] # t[i]}
    IN  IF diff = {} THEN Len(s) < Len(t)
        ELSE LET d == CHOOSE i \in diff : \A j \in diff : i <= j
             IN  s[d] < t[d]

\* Option<T>::cmp for string payloads: None < Some(_), Some by payload
OptStrLess(a, b) ==
    \/ Len(a) = 0 /\ Len(b) = 1
    \/ Len(a) = 1 /\ Len(b) = 1 /\ StrLess(a[1], b[1])

\* slice::sort / sort_by: a stable sort.  The element at index i lands behind
\* every strictly smaller element and behind every earlier equivalent one.
StableSort(s, Less(_, _)) ==
    LET n == Len(s)
        pos == [i \in 1..n |-> 1 + Cardinality({j \in 1..n :
                    Less(s[j], s[i]) \/ (j < i /\ ~Less(s[i], s[j]))})] \o <<>>
    IN  [k \in 1..n |-> s[CHOOSE i \in 1..n : pos[i] = k]]

\* slice::sort_unstable_by: some reordering that is sorted under the
\* comparator; elements that compare Equal may end up in any order.
UnstableSorts(s, Less(_, _)) ==
    {t \in PermsOfSeq(s) : \A i, j \in 1..Len(t) : i < j => ~Less(t[j], t[i])}

\* Vec::dedup: removes consecutive repeated elements
Dedup(s) ==
    LET keep == {i \in 1..Len(s) : i = 1 \/ s[i] # s[i - 1]}
        idx(k) == CHOOSE i \in keep : Cardinality({j \in keep : j <= i}) = k
    IN  [k \in 1..Cardinality(keep) |-> s[idx(k)]]

(***************************************************************************)
(* Advisory (advisory.rs): the pair (year, id), ordered numerically.       *)
(***************************************************************************)
Advisory(year, id) == [year |-> year, id |-> id]

\* as_tuple with the id in front of the year
as_tuple_IdFirst(a) == <<a.id, a.year>>

as_tuple(a) == <<a.year, a.id>>

\* Ord for Advisory: the tuples of as_tuple compared lexicographically
AdvisoryCmp(a, b) ==
    LET x == as_tuple(a)
        y == as_tuple(b)
    IN  IF x[1] < y[1] THEN "Less"
        ELSE IF x[1] > y[1] THEN "Greater"
        ELSE IF x[2] < y[2] THEN "Less"
        ELSE IF x[2] > y[2] THEN "Greater"
        ELSE "Equal"

(***************************************************************************)
(* Package (package.rs): the full name and the offset of the version.      *)
(***************************************************************************)
IsDigit(c) == c \in 48..57

\* VERSION_SPLIT.find that returns the last match in place of the first
VersionSplitFind_Last(s) ==
    LET hits == {i \in 1..(Len(s) - 1) : s[i] = 45 /\ IsDigit(s[i + 1])}
    IN  IF hits = {} THEN None
        ELSE Some((CHOOSE i \in hits : \A j \in hits : j <= i) - 1)

\* VERSION_SPLIT.find: 0-based start of the first "-" followed by a digit,
\* None when there is no such place
VersionSplitFind(s) ==
    LET hits == {i \in 1..(Len(s) - 1) : s[i] = 45 /\ IsDigit(s[i + 1])}
    IN  IF hits = {} THEN None
        ELSE Some((CHOOSE i \in hits : \A j \in hits : i <= j) - 1)

\* Package::from_str: Ok(package) as Some, Err(PackageErr::Version) as None
PackageFromStr(s) ==
    LET m == VersionSplitFind(s)
    IN  IF m # None THEN Some([name |-> s, v_idx |-> m[1] + 1]) ELSE None

\* Package::pname: &self.name[..self.v_idx - 1]
pname(p) == SubSeq(p.name, 1, p.v_idx - 1)

\* Package::version: &self.name[self.v_idx..]
version(p) == SubSeq(p.name, p.v_idx + 1, Len(p.name))

\* derived Ord of Package: by name, then by v_idx
PackageLess(p, q) ==
    \/ StrLess(p.name, q.name)
    \/ p.name = q.name /\ p.v_idx < q.v_idx

(***************************************************************************)
(* Branch (scan.rs): release name and revision.                            *)
(***************************************************************************)
\* Branch::new: the revision defaults to the name
BranchNew(name) == [name |-> name, rev |-> name]

\* derived Ord of Branch: by name, then by rev
BranchLess(a, b) ==
    \/ StrLess(a.name, b.name)
    \/ a.name = b.name /\ StrLess(a.rev, b.rev)

(***************************************************************************)
(* Maintainer (package.rs): Structured { github, email } or Unstructured.  *)
(***************************************************************************)
Structured(github, email) ==
    [tag |-> "Structured", github |-> github, email |-> email, text |-> <<>>]

Unstructured(text) ==
    [tag |-> "Unstructured", github |-> None, email |-> None, text |-> text]

\* Maintainer::new
MaintainerNew(github) == Structured(Some(github), None)

\* derived Ord of Maintainer: variants in declaration order, then the fields
MaintainerLess(a, b) ==
    \/ a.tag = "Structured" /\ b.tag = "Unstructured"
    \/ /\ a.tag = "Structured" /\ b.tag = "Structured"
       /\ \/ OptStrLess(a.github, b.github)
          \/ a.github = b.github /\ OptStrLess(a.email, b.email)
    \/ a.tag = "Unstructured" /\ b.tag = "Unstructured" /\ StrLess(a.text, b.text)

(***************************************************************************)
(* VulnixRes (scan.rs): the fields ticket_list reads.                      *)
(***************************************************************************)
VulnixRes(pkg, affected_by, cvssv3_basescore, maintainers) ==
    [pkg |-> pkg, affected_by |-> affected_by,
     cvssv3_basescore |-> cvssv3_basescore, maintainers |-> maintainers]

(***************************************************************************)
(* The explored values.                                                    *)
(***************************************************************************)
CVE_2019_9999 == Advisory(2019, 9999)
CVE_2019_10000 == Advisory(2019, 10000)
Advs == {CVE_2019_9999, CVE_2019_10000}

\* "a-1" and "a-10"
Pkgs == {PackageFromStr(<<97, 45, 49>>)[1], PackageFromStr(<<97, 45, 49, 48>>)[1]}

\* CVSS scores in tenths: 8.8 and, as vulnix' JSON is not validated, -2.0
Scores == {88, 0 - 20}

\* "b" as a GitHub handle and the free text "a"
Maints == {MaintainerNew(<<98>>), Unstructured(<<97>>)}

\* a=5d4a1a3897e2, a-b=80738ed9dc0c and Branch::new("c")
BranchA == [name |-> <<97>>,
            rev |-> <<53, 100, 52, 97, 49, 97, 51, 56, 57, 55, 101, 50>>]
BranchAB == [name |-> <<97, 45, 98>>,
             rev |-> <<56, 48, 55, 51, 56, 101, 100, 57, 100, 99, 48, 99>>]
BranchC == BranchNew(<<99>>)
BranchUniverse == {BranchA, BranchAB, BranchC}

NoScores == <<>>

\* a list is at most as long as there are values: every order of the values
\* and lists that repeat a value are among them
AffLists == SeqsUpTo(Cardinality(Advs), Advs)
MaintLists == SeqsUpTo(Cardinality(Maints), Maints)

\* every partial map from advisories to scores
ScoreMaps == UNION {[D -> Scores] : D \in SUBSET Advs}

\* results that differ in package and affected_by only
FoldFamily == {VulnixRes(p, a, NoScores, <<>>) : p \in Pkgs, a \in AffLists}

\* results that list both advisories and differ in package and scores
ScoreFamily ==
    {VulnixRes(p, <<CVE_2019_9999, CVE_2019_10000>>, s, <<>>) :
        p \in Pkgs, s \in ScoreMaps}

\* results that differ in package and maintainers
MaintFamily ==
    {VulnixRes(p, <<CVE_2019_9999>>, NoScores, m) : p \in Pkgs, m \in MaintLists}

\* results that differ in the package only
PlainFamily == {VulnixRes(p, <<CVE_2019_9999>>, NoScores, <<>>) : p \in Pkgs}

\* the explored inputs: the results of one input come from one family and
\* sit on the branches of one list; Branches::load and Branches::scan insert
\* one entry per branch of a list that Branches::init has checked for
\* pairwise distinct names, and a branch may have no result at all.
\* Maintainers are pinged or not where results carry maintainers.
InputKinds ==
    {<<FoldFamily, {BranchA, BranchAB}, {FALSE}>>,
     <<ScoreFamily, {BranchA, BranchAB}, {FALSE}>>,
     <<MaintFamily, {BranchA, BranchAB}, BOOLEAN>>,
     <<PlainFamily, {BranchA, BranchC}, {TRUE}>>}

\* the map that holds, for every branch of keys, its results in the order of flat
ScanOf(keys, flat) ==
    [b \in keys |->
        LET mine == {i \in 1..Len(flat) : flat[i][1] = b}
            idx(k) == CHOOSE i \in mine : Cardinality({j \in mine : j <= i}) = k
        IN  [k \in 1..Cardinality(mine) |-> flat[idx(k)][2]]]

(***************************************************************************)
(* Ticket and Detail (ticket.rs).                                          *)
(***************************************************************************)
\* Ticket::new: a ticket with empty affected map
TicketNew(it, pkg) ==
    [iteration |-> it, pkg |-> pkg, affected |-> <<>>,
     issue_id |-> None, issue_url |-> None, maintainers |-> <<>>]

\* Detail::new
DetailNew(score) == [branches |-> <<>>, score |-> score]

\* Detail::add
DetailAdd(d, branch) == [d EXCEPT !.branches = Append(@, branch)]

(***************************************************************************)
(* ticket_list, step 1: collect (advisory, branch) pairs, maintainers and  *)
(* scores while iterating the branches and their results.                  *)
(***************************************************************************)
EmptyAcc == [scores |-> <<>>, maintmap |-> <<>>, pkgmap |-> <<>>]

\* FoldResult with the package's pairs replaced instead of extended
FoldResult_Replace(acc, branch, res, ping) ==
    LET maintmap ==
            IF ping
            THEN IF res.pkg \in DOMAIN acc.maintmap
                 THEN [acc.maintmap EXCEPT ![res.pkg] = @ \o res.maintainers]
                 ELSE (res.pkg :> res.maintainers) @@ acc.maintmap
            ELSE acc.maintmap
        pairs == [i \in 1..Len(res.affected_by) |-> <<res.affected_by[i], branch>>]
    IN  [scores |-> res.cvssv3_basescore @@ acc.scores,
         maintmap |-> maintmap,
         pkgmap |-> (res.pkg :> pairs) @@ acc.pkgmap]

\* FoldResult with the scores replaced instead of extended
FoldResult_LastScores(acc, branch, res, ping) ==
    LET maintmap ==
            IF ping
            THEN IF res.pkg \in DOMAIN acc.maintmap
                 THEN [acc.maintmap EXCEPT ![res.pkg] = @ \o res.maintainers]
                 ELSE (res.pkg :> res.maintainers) @@ acc.maintmap
            ELSE acc.maintmap
        e == IF res.pkg \in DOMAIN acc.pkgmap THEN acc.pkgmap[res.pkg] ELSE <<>>
        pairs == [i \in 1..Len(res.affected_by) |-> <<res.affected_by[i], branch>>]
    IN  [scores |-> res.cvssv3_basescore,
         maintmap |-> maintmap,
         pkgmap |-> (res.pkg :> (e \o pairs)) @@ acc.pkgmap]

\* the body of the inner loop for one result of one branch
FoldResult(acc, branch, res, ping) ==
    LET maintmap ==
            IF ping
            THEN IF res.pkg \in DOMAIN acc.maintmap
                 THEN [acc.maintmap EXCEPT ![res.pkg] = @ \o res.maintainers]
                 ELSE (res.pkg :> res.maintainers) @@ acc.maintmap
            ELSE acc.maintmap
        e == IF res.pkg \in DOMAIN acc.pkgmap THEN acc.pkgmap[res.pkg] ELSE <<>>
        pairs == [i \in 1..Len(res.affected_by) |-> <<res.affected_by[i], branch>>]
    IN  [scores |-> res.cvssv3_basescore @@ acc.scores,
         maintmap |-> maintmap,
         pkgmap |-> (res.pkg :> (e \o pairs)) @@ acc.pkgmap]

\* the (branch, result) pairs in the order the two loops visit them
RECURSIVE Items(_, _)
Items(scan, border) ==
    IF border = <<>> THEN <<>>
    ELSE [i \in 1..Len(scan[border[1]]) |-> <<border[1], scan[border[1]][i]>>]
         \o Items(scan, Tail(border))

RECURSIVE FoldItems(_, _, _)
FoldItems(acc, items, ping) ==
    IF items = <<>> THEN acc
    ELSE FoldItems(FoldResult(acc, items[1][1], items[1][2], ping), Tail(items), ping)

\* step 1 for the iteration order border of the map's branches
Accumulate(scan, ping, border) == FoldItems(EmptyAcc, Items(scan, border), ping)

(***************************************************************************)
(* ticket_list, step 2: one ticket per package of pkgmap.                  *)
(***************************************************************************)
\* Ord of the tuple (Advisory, Branch)
AdvBrLess(x, y) ==
    \/ AdvisoryCmp(x[1], y[1]) = "Less"
    \/ AdvisoryCmp(x[1], y[1]) = "Equal" /\ BranchLess(x[2], y[2])

\* SortAdvBr without the sort
SortAdvBr_Unsorted(advbr) == advbr

\* advbr.sort_unstable(): elements that compare equal are identical tuples,
\* so the result is the one a stable sort gives
SortAdvBr(advbr) == StableSort(advbr, AdvBrLess)

\* the loop over the sorted pairs: entry(advisory).or_insert_with(..).add(branch)
RECURSIVE FoldPairs(_, _, _)
FoldPairs(affected, advbr, scores) ==
    IF advbr = <<>> THEN affected
    ELSE LET advisory == advbr[1][1]
             branch == advbr[1][2]
             score == IF advisory \in DOMAIN scores THEN Some(scores[advisory]) ELSE None
             d == IF advisory \in DOMAIN affected THEN affected[advisory]
                  ELSE DetailNew(score)
         IN  FoldPairs((advisory :> DetailAdd(d, branch)) @@ affected,
                       Tail(advbr), scores)

\* SortDedupMaintainers without the dedup
SortDedupMaintainers_NoDedup(m) == StableSort(m, MaintainerLess)

\* t.maintainers.sort(); t.maintainers.dedup()
SortDedupMaintainers(m) == Dedup(StableSort(m, MaintainerLess))

\* the closure mapped over pkgmap
MakeTicket(it, pkg, advbr, scores, maintmap) ==
    LET t == [TicketNew(it, pkg) EXCEPT
                !.affected = FoldPairs(<<>>, SortAdvBr(advbr), scores)]
    IN  IF pkg \in DOMAIN maintmap
        THEN [t EXCEPT !.maintainers = SortDedupMaintainers(maintmap[pkg])]
        ELSE t

TicketPkgLess(a, b) == PackageLess(a.pkg, b.pkg)

\* SortTickets without the sort
SortTickets_Unsorted(ts) == ts

\* tickets.sort_by(|a, b| a.pkg.cmp(&b.pkg))
SortTickets(ts) == StableSort(ts, TicketPkgLess)

\* step 2 for the iteration order porder of pkgmap's packages
Consolidate(it, acc, porder) ==
    SortTickets([i \in 1..Len(porder) |->
        MakeTicket(it, porder[i], acc.pkgmap[porder[i]], acc.scores, acc.maintmap)])

\* every value ticket_list can return: one per iteration order of scan_res
\* and of pkgmap
ticket_list(it, scan, ping) ==
    UNION {LET acc == Accumulate(scan, ping, border)
           IN  {Consolidate(it, acc, porder) : porder \in SeqPerms(DOMAIN acc.pkgmap)} :
           border \in SeqPerms(DOMAIN scan)}

(***************************************************************************)
(* Display for Detail and Ticket.                                          *)
(***************************************************************************)
\* score that cmp_score gives an advisory without score: -1.0
UnscoredKey == -10

\* number of bytes of the revision shown in the footer
RevPrefixLen == 11

\* Detail::fmt: "CVSSv3=<score> " when there is a score, then the branch
\* names as stored, joined by ", " (kept as the list of the joined names)
DetailFmt(d) ==
    [cvss |-> d.score, names |-> [i \in 1..Len(d.branches) |-> d.branches[i].name]]

\* cmp_score without the tie-break by advisory
cmp_score_NoTieBreak(a, b) ==
    LET left == IF a[2].score = None THEN UnscoredKey ELSE a[2].score[1]
        right == IF b[2].score = None THEN UnscoredKey ELSE b[2].score[1]
    IN  IF left > right THEN "Less"
        ELSE IF left < right THEN "Greater"
        ELSE "Equal"

\* cmp_score on (advisory, detail) pairs
cmp_score(a, b) ==
    LET left == IF a[2].score = None THEN UnscoredKey ELSE a[2].score[1]
        right == IF b[2].score = None THEN UnscoredKey ELSE b[2].score[1]
    IN  IF left > right THEN "Less"
        ELSE IF left < right THEN "Greater"
        ELSE AdvisoryCmp(a[1], b[1])

ScoreLess(a, b) == cmp_score(a, b) = "Less"

\* format!("{}: {}", b.name, &b.rev[..11])
FooterEntry(b) == b.name \o <<58, 32>> \o SubSeq(b.rev, 1, RevPrefixLen)

\* affected.values().flat_map(|d| d.branches.iter()) in iteration order iter
RECURSIVE FlatBranches(_, _)
FlatBranches(affected, iter) ==
    IF iter = <<>> THEN <<>>
    ELSE affected[iter[1]].branches \o FlatBranches(affected, Tail(iter))

\* SortDedupRelevant without the dedup
SortDedupRelevant_NoDedup(relevant) == StableSort(relevant, StrLess)

\* relevant.sort(); relevant.dedup()
SortDedupRelevant(relevant) == Dedup(StableSort(relevant, StrLess))

\* the footer "Scanned versions: ..." as the list of the entries joined by "; "
Footer(t, iter) ==
    LET bs == FlatBranches(t.affected, iter)
    IN  SortDedupRelevant([i \in 1..Len(bs) |-> FooterEntry(bs[i])])

\* the slice &b.rev[..11] panics when the revision has fewer than 11 bytes
FmtPanics(t) ==
    \E a \in DOMAIN t.affected : \E i \in 1..Len(t.affected[a].branches) :
        Len(t.affected[a].branches[i].rev) < RevPrefixLen

\* the advisory lines: the entries of affected in iteration order iter,
\* sorted by cmp_score
AdvisoryLines(t, iter) ==
    {[k \in 1..Len(adv) |-> [advisory |-> adv[k][1], details |-> DetailFmt(adv[k][2])]] :
        adv \in UnstableSorts([i \in 1..Len(iter) |-> <<iter[i], t.affected[iter[i]]>>],
                              ScoreLess)}

NotRendered == [status |-> "none", of |-> 0, lines |-> <<>>, footer |-> <<>>]

\* no function has been applied
NoCall == [fn |-> "none"]

NoReturn == [status |-> "none"]

(***************************************************************************)
(* Ticket::summary and Ticket::max_score.                                  *)
(***************************************************************************)
\* Display of an unsigned integer: its decimal digits
RECURSIVE Decimal(_)
Decimal(n) ==
    IF n < 10 THEN <<48 + n>> ELSE Decimal(n \div 10) \o <<48 + (n % 10)>>

\* format!("{:.1}", s) of a score held in tenths
FormatScore(s) ==
    LET a == IF s < 0 THEN 0 - s ELSE s
    IN  (IF s < 0 THEN <<45>> ELSE <<>>) \o Decimal(a \div 10) \o <<46>> \o Decimal(a % 10)

\* affected.values().filter_map(|d| d.score) in iteration order iter
RECURSIVE FilterMapScores(_, _)
FilterMapScores(affected, iter) ==
    IF iter = <<>> THEN <<>>
    ELSE (IF affected[iter[1]].score = None THEN <<>> ELSE <<affected[iter[1]].score[1]>>)
         \o FilterMapScores(affected, Tail(iter))

\* Iterator::max: a fold that keeps the later of two elements that are not less
RECURSIVE IterMax(_, _)
IterMax(acc, s) ==
    IF s = <<>> THEN acc
    ELSE IterMax(IF acc = None \/ s[1] >= acc[1] THEN Some(s[1]) ELSE acc, Tail(s))

\* max_score that takes the first score it meets
max_score_First(t, iter) ==
    LET s == FilterMapScores(t.affected, iter)
    IN  IF s = <<>> THEN None ELSE Some(s[1])

\* Ticket::max_score, the affected map iterated in order iter
max_score(t, iter) == IterMax(None, FilterMapScores(t.affected, iter))

\* "Vulnerability roundup "
RoundupText ==
    <<86, 117, 108, 110, 101, 114, 97, 98, 105, 108, 105, 116, 121, 32,
      114, 111, 117, 110, 100, 117, 112, 32>>

\* "advisory"
AdvisoryWord == <<97, 100, 118, 105, 115, 111, 114, 121>>

\* "advisories"
AdvisoriesWord == <<97, 100, 118, 105, 115, 111, 114, 105, 101, 115>>

\* Ticket::summary
summary(t, iter) ==
    LET num == Cardinality(DOMAIN t.affected)
        advisory == IF num = 1 THEN AdvisoryWord ELSE AdvisoriesWord
        m == max_score(t, iter)
        max_cvss == IF m = None THEN <<>> ELSE <<32, 91>> \o FormatScore(m[1]) \o <<93>>
    IN  RoundupText \o Decimal(t.iteration) \o <<58, 32>> \o t.pkg.name \o <<58, 32>>
        \o Decimal(num) \o <<32>> \o advisory \o max_cvss

(***************************************************************************)
(* The state machine: an input is chosen, ticket_list consolidates it and  *)
(* one of the tickets is rendered.  Rendering reads the ticket only, so    *)
(* the rendering of every ticket is explored from the same "listed" state. *)
(***************************************************************************)
Init ==
    /\ iteration = 2
    /\ \E kind \in InputKinds : \E keys \in SUBSET kind[2] \ {{}} :
         \E flat \in SeqsUpTo(MaxRes, keys \X kind[1]) :
            /\ scan_res = ScanOf(keys, flat)
            /\ ping_maintainers \in kind[3]
    /\ tickets = <<>>
    /\ out = NotRendered
    /\ pc = "start"
    /\ call = NoCall
    /\ ret = NoReturn
    /\ dir = <<>>
    /\ issues = <<>>

\* ticket_list(iteration, scan_res, ping_maintainers)
TicketList ==
    /\ pc = "start"
    /\ tickets' \in ticket_list(iteration, scan_res, ping_maintainers)
    /\ pc' = "listed"
    /\ UNCHANGED <<iteration, scan_res, ping_maintainers, out, call, ret,
                 dir, issues>>

\* Ticket::fmt of ticket number i, the affected map iterated in some order
Display ==
    /\ pc = "listed"
    /\ \E i \in 1..Len(tickets) :
         /\ ~FmtPanics(tickets[i])
         /\ \E iter \in SeqPerms(DOMAIN tickets[i].affected) :
              \E lines \in AdvisoryLines(tickets[i], iter) :
                 out' = [status |-> "ok", of |-> i, lines |-> lines,
                         footer |-> Footer(tickets[i], iter)]
    /\ pc' = "rendered"
    /\ UNCHANGED <<iteration, scan_res, ping_maintainers, tickets, call, ret,
                 dir, issues>>

\* Ticket::fmt of a ticket that references a branch with a short revision
DisplayPanics ==
    /\ pc = "listed"
    /\ \E i \in 1..Len(tickets) :
         /\ FmtPanics(tickets[i])
         /\ out' = [status |-> "panic", of |-> i, lines |-> <<>>, footer |-> <<>>]
    /\ pc' = "rendered"
    /\ UNCHANGED <<iteration, scan_res, ping_maintainers, tickets, call, ret,
                 dir, issues>>

\* Ticket::summary of ticket number i, the affected map iterated in some order
Summary ==
    /\ pc = "listed"
    /\ \E i \in 1..Len(tickets) : \E iter \in SeqPerms(DOMAIN tickets[i].affected) :
         /\ call' = [fn |-> "summary", of |-> i]
         /\ ret' = [status |-> "ok", value |-> summary(tickets[i], iter)]
    /\ pc' = "summarised"
    /\ UNCHANGED <<iteration, scan_res, ping_maintainers, tickets, out,
                 dir, issues>>

Next == TicketList \/ Display \/ DisplayPanics \/ Summary

Spec == Init /\ [][Next]_vars

(***************************************************************************)
(* Parsing and formatting of Advisory (advisory.rs).  The strings these    *)
(* functions read are sequences of Unicode scalar values, as the regex     *)
(* crate matches scalar values; for ASCII text that is the byte sequence.   *)
(***************************************************************************)
Ok(v) == [status |-> "Ok", value |-> v]

Err(e) == [status |-> "Err", err |-> e]

\* ARABIC-INDIC DIGIT THREE, a decimal digit that is not ASCII
ArabicIndicThree == 1635

\* \d of the regex crate is Unicode-aware: any decimal digit
IsUnicodeDigit(c) == IsDigit(c) \/ c = ArabicIndicThree

\* "CVE-"
CvePrefix == <<67, 86, 69, 45>>

\* CVESPEC.captures without the anchor at the end of the text
CVESPEC_captures_Unanchored(s) ==
    IF /\ Len(s) >= 10
       /\ SubSeq(s, 1, 4) = CvePrefix
       /\ \A i \in 5..8 : IsUnicodeDigit(s[i])
       /\ s[9] = 45
       /\ IsUnicodeDigit(s[10])
    THEN LET last == CHOOSE k \in 10..Len(s) :
                        /\ \A i \in 10..k : IsUnicodeDigit(s[i])
                        /\ k = Len(s) \/ ~IsUnicodeDigit(s[k + 1])
         IN  Some(<<SubSeq(s, 5, 8), SubSeq(s, 10, last)>>)
    ELSE None

\* CVESPEC.captures for ^CVE-(\d{4})-(\d+)$: the two groups, or None
CVESPEC_captures(s) ==
    IF /\ Len(s) >= 10
       /\ SubSeq(s, 1, 4) = CvePrefix
       /\ \A i \in 5..8 : IsUnicodeDigit(s[i])
       /\ s[9] = 45
       /\ \A i \in 10..Len(s) : IsUnicodeDigit(s[i])
    THEN Some(<<SubSeq(s, 5, 8), SubSeq(s, 10, Len(s))>>)
    ELSE None

\* "65535" and "18446744073709551615", the largest u16 and u64
U16MaxDigits == <<54, 53, 53, 51, 53>>
U64MaxDigits == <<49, 56, 52, 52, 54, 55, 52, 52, 48, 55, 51, 55, 48, 57, 53, 53, 49, 54, 49, 53>>

RECURSIVE StripZeros(_)
StripZeros(d) ==
    IF Len(d) > 1 /\ d[1] = 48 THEN StripZeros(Tail(d)) ELSE d

RECURSIVE DigitsValue(_)
DigitsValue(d) ==
    IF d = <<>> THEN 0 ELSE 10 * DigitsValue(SubSeq(d, 1, Len(d) - 1)) + (d[Len(d)] - 48)

\* str::parse for an unsigned integer type with largest value max: an
\* error for the empty string, for a char that is no ASCII digit and for a
\* number above max
ParseUnsigned(d, max) ==
    IF d = <<>> \/ \E i \in 1..Len(d) : ~IsDigit(d[i]) THEN None
    ELSE LET c == StripZeros(d)
         IN  IF Len(c) < Len(max) \/ (Len(c) = Len(max) /\ ~StrLess(max, c))
             THEN Some(DigitsValue(c))
             ELSE None

\* Advisory::from_str
AdvisoryFromStr(s) ==
    LET c == CVESPEC_captures(s)
    IN  IF c = None THEN Err("ParseCVE")
        ELSE LET year == ParseUnsigned(c[1][1], U16MaxDigits)
                 id == ParseUnsigned(c[1][2], U64MaxDigits)
             IN  IF year # None /\ id # None THEN Ok(Advisory(year[1], id[1]))
                 ELSE Err("ParseCVE")

\* {:04}: at least four digits, zeros in front
Pad4(d) == IF Len(d) >= 4 THEN d ELSE [i \in 1..(4 - Len(d)) |-> 48] \o d

\* Display for Advisory: "CVE-{}-{:04}"
AdvisoryToString(a) ==
    CvePrefix \o Decimal(a.year) \o <<45>> \o Pad4(Decimal(a.id))

(***************************************************************************)
(* The explored arguments of Advisory::from_str: a string is put together  *)
(* from a prefix, a year, a separator, an id and a trailer.                *)
(***************************************************************************)
\* "CVE-", "cve-", "CVE", "" and "xCVE-"
PrefixParts == {CvePrefix, <<99, 118, 101, 45>>, <<67, 86, 69>>, <<>>, <<120, 67, 86, 69, 45>>}

\* "", "20", "999", "0999", "2019", "20190", "201a" and "201" with an
\* Arabic-Indic three
YearParts ==
    {<<>>, <<50, 48>>, <<57, 57, 57>>, <<48, 57, 57, 57>>, <<50, 48, 49, 57>>, <<50, 48, 49, 57, 48>>, <<50, 48, 49, 97>>,
     <<50, 48, 49>> \o <<ArabicIndicThree>>}

\* "-", "" and "_"
SepParts == {<<45>>, <<>>, <<95>>}

\* "18446744073709551616", the largest u64 plus one
TooLargeIds == {<<49, 56, 52, 52, 54, 55, 52, 52, 48, 55, 51, 55, 48, 57, 53, 53, 49, 54, 49, 54>>}

\* "", "1", "0001", "9999", "10000", an Arabic-Indic three and the id that
\* is too large
IdParts == {<<>>, <<49>>, <<48, 48, 48, 49>>, <<57, 57, 57, 57>>, <<49, 48, 48, 48, 48>>, <<ArabicIndicThree>>} \cup TooLargeIds

\* "", " ", "a" and a line feed
TrailerParts == {<<>>, <<32>>, <<97>>, <<10>>}

\* the numbers that the explored numerals denote
Numerals ==
    {<<<<48, 57, 57, 57>>, 999>>, <<<<50, 48, 49, 57>>, 2019>>, <<<<49>>, 1>>, <<<<48, 48, 48, 49>>, 1>>,
     <<<<57, 57, 57, 57>>, 9999>>, <<<<49, 48, 48, 48, 48>>, 10000>>}

NumeralValue(d) == (CHOOSE n \in Numerals : n[1] = d)[2]

AdvisoryCalls ==
    {[fn |-> "Advisory::from_str",
      s |-> p \o y \o sep \o id \o t,
      parts |-> [prefix |-> p, year |-> y, sep |-> sep, id |-> id, trailer |-> t]] :
        p \in PrefixParts, y \in YearParts, sep \in SepParts, id \in IdParts,
        t \in TrailerParts}

\* the explored advisories: years of three and of four digits, ids of one,
\* four and five digits
AdvUniverse == {Advisory(y, i) : y \in {999, 2019, 2020}, i \in {1, 9999, 10000}}

CmpCalls == {[fn |-> "Advisory::cmp", a |-> a, b |-> b] : a, b \in AdvUniverse}

\* the explored arguments of Package::from_str: every string of "a", "-",
\* "1" and "." up to a length
MaxPkgLen == 5

PackageCalls ==
    {[fn |-> "Package::from_str", s |-> s] : s \in SeqsUpTo(MaxPkgLen, {97, 45, 49, 46})}

(***************************************************************************)
(* Branch::from_str (branches.rs).                                         *)
(***************************************************************************)
\* NO-BREAK SPACE, a white space that is not ASCII
NoBreakSpace == 160

\* [:space:] of the regex crate: the ASCII white space \t \n \v \f \r and " "
IsAsciiSpace(c) == c \in 9..13 \/ c = 32

\* \s of the regex crate: the Unicode property White_Space
IsWhiteSpace(c) ==
    c \in (9..13) \cup {32, 133, NoBreakSpace, 5760} \cup (8192..8202)
          \cup {8232, 8233, 8239, 8287, 12288}

\* [^/=[:space:]]
IsNameChar(c) == c # 47 /\ c # 61 /\ ~IsAsciiSpace(c)

\* BRANCHSPEC.captures for ^([^/=[:space:]]+)(=(\S+))?$: groups 1 and 3, or
\* None.  Group 1 cannot hold a "=", so it ends at the end of the text or in
\* front of the first "=".
BRANCHSPEC_captures(s) ==
    LET eqs == {i \in 1..Len(s) : s[i] = 61}
    IN  IF eqs = {}
        THEN IF s # <<>> /\ \A i \in 1..Len(s) : IsNameChar(s[i])
             THEN Some(<<s, None>>) ELSE None
        ELSE LET k == CHOOSE i \in eqs : \A j \in eqs : i <= j
                 name == SubSeq(s, 1, k - 1)
                 rev == SubSeq(s, k + 1, Len(s))
             IN  IF /\ name # <<>> /\ \A i \in 1..Len(name) : IsNameChar(name[i])
                    /\ rev # <<>> /\ \A i \in 1..Len(rev) : ~IsWhiteSpace(rev[i])
                 THEN Some(<<name, Some(rev)>>) ELSE None

\* Branch::from_str
BranchFromStr(s) ==
    LET cap == BRANCHSPEC_captures(s)
    IN  IF cap = None THEN Err("Invalid")
        ELSE IF cap[1][2] # None THEN Ok([name |-> cap[1][1], rev |-> cap[1][2][1]])
        ELSE Ok(BranchNew(cap[1][1]))

\* the explored arguments of Branch::from_str: every string of "a", "=",
\* "/", " " and a no-break space up to a length
MaxSpecLen == 4

BranchCalls ==
    {[fn |-> "Branch::from_str", s |-> s] :
        s \in SeqsUpTo(MaxSpecLen, {97, 61, 47, 32, NoBreakSpace})}

(***************************************************************************)
(* Branches::init (branches.rs).                                           *)
(***************************************************************************)
\* Branches::init that compares whole branches in place of their names
BranchesInit_WholeBranch(specs) ==
    LET dup == {idx \in 1..Len(specs) :
                   \E j \in (idx + 1)..Len(specs) : specs[j] = specs[idx]}
    IN  IF dup = {} THEN Ok([specs |-> specs, repo |-> None])
        ELSE Err(<<"Duplicate branch",
                   specs[CHOOSE i \in dup : \A j \in dup : i <= j].name>>)

\* Branches::init: the first element whose name a later element has makes
\* the call fail
BranchesInit(specs) ==
    LET dup == {idx \in 1..Len(specs) :
                   \E j \in (idx + 1)..Len(specs) : specs[j].name = specs[idx].name}
    IN  IF dup = {} THEN Ok([specs |-> specs, repo |-> None])
        ELSE Err(<<"Duplicate branch",
                   specs[CHOOSE i \in dup : \A j \in dup : i <= j].name>>)

\* the explored arguments of Branches::init: lists of the branches "a",
\* "a=x", "b=x" and "b" up to a length
MaxSpecs == 3

SpecBranches ==
    {BranchNew(<<97>>), [name |-> <<97>>, rev |-> <<120>>],
     [name |-> <<98>>, rev |-> <<120>>], BranchNew(<<98>>)}

InitCalls ==
    {[fn |-> "Branches::init", specs |-> l] : l \in SeqsUpTo(MaxSpecs, SpecBranches)}

(***************************************************************************)
(* maintainer_contacts (source.rs), where a Maintainer is Structured,      *)
(* Unstructured or a nested list of maintainers.                           *)
(***************************************************************************)
\* Maintainer::Nested
Nested(sub) == [tag |-> "Nested", sub |-> sub]

\* maintainer_contacts that does not descend into nested lists
maintainer_contacts_Shallow(maint) ==
    LET handle(m) == IF m.tag = "Structured" /\ m.github # None THEN <<m.github[1]>>
                     ELSE <<>>
        RECURSIVE walk(_)
        walk(l) == IF l = <<>> THEN <<>> ELSE handle(l[1]) \o walk(Tail(l))
    IN  walk(maint)

\* maintainer_contacts: filter_map over the list, a handle for a Structured
\* entry with github, the contacts of the sub-list for a Nested entry,
\* nothing for the rest; flattened in the order of the list
RECURSIVE maintainer_contacts(_)
maintainer_contacts(maint) ==
    IF maint = <<>> THEN <<>>
    ELSE LET m == maint[1]
             mine == IF m.tag = "Structured"
                     THEN (IF m.github # None THEN <<m.github[1]>> ELSE <<>>)
                     ELSE IF m.tag = "Nested" THEN maintainer_contacts(m.sub)
                     ELSE <<>>
         IN  mine \o maintainer_contacts(Tail(maint))

\* the explored arguments of maintainer_contacts.  The entries that are not
\* nested: handle "b", handle "c" with e-mail "e", e-mail "e" alone and the
\* free text "a"
PlainMaintainers ==
    {MaintainerNew(<<98>>), Structured(Some(<<99>>), Some(<<101>>)),
     Structured(None, Some(<<101>>)), Unstructured(<<97>>)}

\* the lists of at most two elements of S
Pairs(S) == {<<>>} \cup {<<x>> : x \in S} \cup {<<x, y>> : x \in S, y \in S}

\* lists of plain entries and of lists of plain entries
Nested1 == PlainMaintainers \cup {Nested(g) : g \in Pairs(PlainMaintainers)}

\* and lists that hold a list of such lists beside a plain entry
MaintainerLists ==
    Pairs(Nested1)
    \cup UNION {{<<Nested(g)>>, <<Nested(g), x>>, <<x, Nested(g)>>} :
                   g \in Pairs(Nested1) \ Pairs(PlainMaintainers),
                   x \in {MaintainerNew(<<98>>), Unstructured(<<97>>)}}

ContactCalls == {[fn |-> "maintainer_contacts", maint |-> l] : l \in MaintainerLists}

(***************************************************************************)
(* Store listings (filter.rs, and Applicable::from_store_path of           *)
(* ticket.rs).  A listing is UTF-8 text held as its bytes; slicing a str   *)
(* at an offset that is no char boundary panics.  The explored text has    *)
(* no white space outside ASCII.                                           *)
(***************************************************************************)
\* length of "/nix/store/" + hash + "-", and of hash + "-"
StorePathPrefixLen == 44
HashPrefixLen == 33

\* a byte that continues a UTF-8 sequence
IsContinuation(b) == b \in 128..191

\* str::is_char_boundary, i counted from 0
IsCharBoundary(sp, i) ==
    i = 0 \/ i = Len(sp) \/ (i < Len(sp) /\ ~IsContinuation(sp[i + 1]))

\* str::trim
Trim(sp) ==
    LET solid == {i \in 1..Len(sp) : ~IsAsciiSpace(sp[i])}
    IN  IF solid = {} THEN <<>>
        ELSE SubSeq(sp, CHOOSE i \in solid : \A j \in solid : i <= j,
                        CHOOSE i \in solid : \A j \in solid : j <= i)

\* str::lines: the text is cut behind every line feed, the line feed and a
\* carriage return in front of it are dropped; a last line needs no line feed
Lines(text) ==
    LET nl == {i \in 1..Len(text) : text[i] = 10}
        ends == nl \cup (IF text # <<>> /\ text[Len(text)] # 10
                         THEN {Len(text) + 1} ELSE {})
        end(k) == CHOOSE e \in ends : Cardinality({x \in ends : x <= e}) = k
        start(k) == IF k = 1 THEN 1 ELSE end(k - 1) + 1
        piece(k) == SubSeq(text, start(k), end(k) - 1)
        line(k) == LET q == piece(k)
                   IN  IF end(k) \in nl /\ q # <<>> /\ q[Len(q)] = 13
                       THEN SubSeq(q, 1, Len(q) - 1) ELSE q
    IN  [k \in 1..Cardinality(ends) |-> line(k)]

\* the match on sp.len() of both functions: None for an empty line, else
\* the text behind the long prefix, behind the short prefix, or the line;
\* the guards slice one byte in front of the name
StoreMatch(line) ==
    LET sp == Trim(line)
        x == Len(sp)
        sliceOk(a, b) == IsCharBoundary(sp, a) /\ IsCharBoundary(sp, b)
    IN  IF x = 0 THEN [status |-> "None"]
        ELSE IF x > StorePathPrefixLen
                /\ ~sliceOk(StorePathPrefixLen - 1, StorePathPrefixLen)
             THEN [status |-> "panic"]
        ELSE IF x > StorePathPrefixLen /\ sp[StorePathPrefixLen] = 45
             THEN [status |-> "Some", value |-> SubSeq(sp, StorePathPrefixLen + 1, x)]
        ELSE IF x > HashPrefixLen /\ ~sliceOk(HashPrefixLen - 1, HashPrefixLen)
             THEN [status |-> "panic"]
        ELSE IF x > HashPrefixLen /\ sp[HashPrefixLen] = 45
             THEN [status |-> "Some", value |-> SubSeq(sp, HashPrefixLen + 1, x)]
        ELSE [status |-> "Some", value |-> sp]

\* Applicable::from_store_path
from_store_path(sp) == StoreMatch(sp)

\* extract_derivations of filter.rs, collected: the names of the lines in
\* order, or a panic
extract_derivations(storelisting) ==
    LET ls == Lines(storelisting)
        found == [k \in 1..Len(ls) |-> StoreMatch(ls[k])]
        RECURSIVE names(_)
        names(k) == IF k > Len(ls) THEN <<>>
                    ELSE (IF found[k].status = "Some" THEN <<found[k].value>> ELSE <<>>)
                         \o names(k + 1)
    IN  IF \E k \in 1..Len(ls) : found[k].status = "panic" THEN [status |-> "panic"]
        ELSE [status |-> "ok", names |-> names(1)]

\* the explored lines: a run of "h", then "-", "x" or the two bytes of
\* U+00E9, then a tail, with or without white space around
Hs(n) == [i \in 1..n |-> 104]

LineBodies ==
    {Hs(n) \o mid \o tail :
        n \in {0, HashPrefixLen - 2, HashPrefixLen - 1,
               StorePathPrefixLen - 2, StorePathPrefixLen - 1},
        mid \in {<<45>>, <<120>>, <<195, 169>>},
        tail \in {<<>>, <<110>>, Hs(12), Hs(10) \o <<45, 110>>}}

StoreLines ==
    {<<>>, <<32>>}
    \cup {lead \o b \o trail : lead \in {<<>>, <<32>>}, b \in LineBodies,
                               trail \in {<<>>, <<32>>, <<13>>}}

\* the explored listings: one line, with or without a line feed behind it,
\* or followed by a second line
StoreListings ==
    StoreLines
    \cup {l \o <<10>> : l \in StoreLines}
    \cup {l \o <<10>> \o m : l \in StoreLines,
                            m \in {<<>>, <<110>>, Hs(HashPrefixLen - 1) \o <<45, 110>>}}

StoreCalls ==
    {[fn |-> "extract_derivations", storelisting |-> t] : t \in StoreListings}
    \cup {[fn |-> "from_store_path", sp |-> l] : l \in StoreLines}

(***************************************************************************)
(* StoreContents::is_installed (filter.rs).                                *)
(***************************************************************************)
\* NixEnvPkg, the fields is_installed reads: the name and meta.outputs
NixEnvPkg(pkg, outputs) == [pkg |-> pkg, meta |-> [outputs |-> outputs]]

\* is_installed that takes any entry "<name>-..." of the index for an output
is_installed_AnyOutput(known, pi) ==
    \/ pi.pkg \in known
    \/ \E k \in known :
          Len(k) > Len(pi.pkg) /\ SubSeq(k, 1, Len(pi.pkg) + 1) = pi.pkg \o <<45>>

\* StoreContents::is_installed
is_installed(known, pi) ==
    IF pi.pkg \in known THEN TRUE
    ELSE \E i \in 1..Len(pi.meta.outputs) :
            (pi.pkg \o <<45>> \o pi.meta.outputs[i]) \in known

\* the explored indexes: sets of "p-1", "p-1-bin", "p-1-dev" and "q-2"
KnownNames == {<<112, 45, 49>>, <<112, 45, 49, 45, 98, 105, 110>>, <<112, 45, 49, 45, 100, 101, 118>>, <<113, 45, 50>>}

\* the explored packages: "p-1" and "q-2" with lists of the outputs "bin",
\* "dev" and "out" up to a length
MaxOutputs == 2

OutputNames == {<<98, 105, 110>>, <<100, 101, 118>>, <<111, 117, 116>>}

InstalledCalls ==
    {[fn |-> "is_installed", known |-> k, pi |-> NixEnvPkg(n, o)] :
        k \in SUBSET KnownNames, n \in {<<112, 45, 49>>, <<113, 45, 50>>},
        o \in SeqsUpTo(MaxOutputs, OutputNames)}

(***************************************************************************)
(* Applicable (ticket.rs): the index of the derivation names found in the  *)
(* store dumps of a directory, and the ticket filter over it.              *)
(***************************************************************************)
\* str::ends_with
ends_with(s, suffix) ==
    /\ Len(suffix) <= Len(s)
    /\ SubSeq(s, Len(s) - Len(suffix) + 1, Len(s)) = suffix

\* STRIP_OUTPUTS: "-dev", "-bin", "-out", "-lib", "-ga"
STRIP_OUTPUTS == <<<<45, 100, 101, 118>>, <<45, 98, 105, 110>>, <<45, 111, 117, 116>>, <<45, 108, 105, 98>>, <<45, 103, 97>>>>

\* a stripping that goes on while the name ends in one of the suffixes
RECURSIVE StripOutput_Repeated(_)
StripOutput_Repeated(deriv) ==
    LET hits == {i \in DOMAIN STRIP_OUTPUTS : ends_with(deriv, STRIP_OUTPUTS[i])}
    IN  IF hits = {} THEN deriv
        ELSE LET i == CHOOSE h \in hits : \A j \in hits : h <= j
             IN  StripOutput_Repeated(SubSeq(deriv, 1, Len(deriv) - Len(STRIP_OUTPUTS[i])))

\* the loop over STRIP_OUTPUTS in Applicable::extract_derivations: the first
\* suffix of the list the name ends in is cut off, once
StripOutput(deriv) ==
    LET hits == {i \in DOMAIN STRIP_OUTPUTS : ends_with(deriv, STRIP_OUTPUTS[i])}
    IN  IF hits = {} THEN deriv
        ELSE LET i == CHOOSE h \in hits : \A j \in hits : h <= j
             IN  SubSeq(deriv, 1, Len(deriv) - Len(STRIP_OUTPUTS[i]))

\* Applicable::extract_derivations, collected: the stripped names of the
\* lines in order, or a panic of from_store_path
Applicable_extract_derivations(storedump) ==
    LET ls == Lines(storedump)
        found == [k \in 1..Len(ls) |-> from_store_path(ls[k])]
        RECURSIVE names(_)
        names(k) == IF k > Len(ls) THEN <<>>
                    ELSE (IF found[k].status = "Some"
                          THEN <<StripOutput(found[k].value)>> ELSE <<>>)
                         \o names(k + 1)
    IN  IF \E k \in 1..Len(ls) : found[k].status = "panic" THEN [status |-> "panic"]
        ELSE [status |-> "ok", names |-> names(1)]

\* Applicable::new over the entries of a directory, each a file with a name
\* and its text: the names of every file whose name does not start with "."
Applicable_new(entries) ==
    LET read == {k \in 1..Len(entries) : SubSeq(entries[k].name, 1, 1) # <<46>>}
        ex == [k \in 1..Len(entries) |-> Applicable_extract_derivations(entries[k].text)]
    IN  IF \E k \in read : ex[k].status = "panic" THEN [status |-> "panic"]
        ELSE [status |-> "ok",
              known |-> UNION {Range(ex[k].names) : k \in read}]

\* Applicable::filter: tickets.retain(|t| self.known.contains(t.pkg.as_str()))
Applicable_filter(known, tkts) ==
    SelectSeq(tkts, LAMBDA t : t.pkg.name \in known)

\* the explored dump lines: nothing, a hash or a full store path in front
\* of "db-5.3.28" or of no name, and a tail of none, one or two suffixes or
\* of something close to a suffix
DumpPrefixes == {<<>>, Hs(HashPrefixLen - 1) \o <<45>>,
                 <<47, 110, 105, 120, 47, 115, 116, 111, 114, 101, 47>> \o Hs(HashPrefixLen - 1) \o <<45>>}

DumpNames == {<<>>, <<100, 98, 45, 53, 46, 51, 46, 50, 56>>}

DumpTails == {<<>>, <<45, 100, 101, 118>>, <<45, 98, 105, 110>>, <<45, 111, 117, 116>>, <<45, 108, 105, 98>>, <<45, 103, 97>>, <<45, 100, 101, 118, 45, 98, 105, 110>>, <<45, 98, 105, 110, 45, 98, 105, 110>>,
              <<45, 103, 97, 45, 108, 105, 98>>, <<45, 98, 105, 110, 120>>, <<98, 105, 110>>, <<45, 100, 111, 99>>}

DumpLines == {p \o n \o t : p \in DumpPrefixes, n \in DumpNames, t \in DumpTails}

\* the explored dumps: one line, or one line and "zsh-5.7.1-out" behind it
StoreDumps ==
    DumpLines \cup {l \o <<10>> \o <<122, 115, 104, 45, 53, 46, 55, 46, 49, 45, 111, 117, 116>> \o <<10>> : l \in DumpLines}

\* the explored ticket lists, over "db-5.3.28", "db-5.3.28-bin" and
\* "zsh-5.7.1"
FilterTickets ==
    LET t(n) == TicketNew(2, PackageFromStr(n)[1])
    IN  {<<t(<<100, 98, 45, 53, 46, 51, 46, 50, 56>>), t(<<100, 98, 45, 53, 46, 51, 46, 50, 56, 45, 98, 105, 110>>), t(<<122, 115, 104, 45, 53, 46, 55, 46, 49>>)>>, <<t(<<122, 115, 104, 45, 53, 46, 55, 46, 49>>), t(<<100, 98, 45, 53, 46, 51, 46, 50, 56>>)>>, <<>>}

\* the explored directories: one dump named "vm1", alone or with a file
\* ".keep" that lists "zsh-5.7.1"
DumpDirs ==
    {<<[name |-> <<118, 109, 49>>, text |-> d]>> : d \in StoreDumps}
    \cup {<<[name |-> <<46, 107, 101, 101, 112>>, text |-> <<122, 115, 104, 45, 53, 46, 55, 46, 49>>], [name |-> <<118, 109, 49>>, text |-> d]>> :
             d \in DumpLines}

ApplicableCalls ==
    {[fn |-> "Applicable::extract_derivations", storedump |-> d] : d \in StoreDumps}
    \cup {[fn |-> "Applicable::filter", dir |-> e, tickets |-> t] :
             e \in DumpDirs, t \in FilterTickets}

(***************************************************************************)
(* The state machine of the library functions: a function and its          *)
(* arguments are chosen, and the function is applied.                      *)
(***************************************************************************)
Calls == AdvisoryCalls \cup CmpCalls \cup PackageCalls \cup BranchCalls
         \cup InitCalls \cup ContactCalls \cup StoreCalls
         \cup InstalledCalls \cup ApplicableCalls

LibInit ==
    /\ iteration = 2
    /\ scan_res = <<>>
    /\ ping_maintainers = FALSE
    /\ tickets = <<>>
    /\ out = NotRendered
    /\ pc = "call"
    /\ call \in Calls
    /\ ret = NoReturn
    /\ dir = <<>>
    /\ issues = <<>>

\* s.parse::<Advisory>()
ParseAdvisory ==
    /\ pc = "call"
    /\ call.fn = "Advisory::from_str"
    /\ ret' = AdvisoryFromStr(call.s)
    /\ pc' = "returned"
    /\ UNCHANGED <<iteration, scan_res, ping_maintainers, tickets, out, call,
                 dir, issues>>

\* x.to_string().parse::<Advisory>() for an advisory x that parsing returned
ReparseAdvisory ==
    /\ pc = "returned"
    /\ call.fn = "Advisory::from_str"
    /\ ret.status = "Ok"
    /\ call' = [fn |-> "Advisory::to_string", x |-> ret.value,
                s |-> AdvisoryToString(ret.value)]
    /\ ret' = AdvisoryFromStr(AdvisoryToString(ret.value))
    /\ pc' = "reparsed"
    /\ UNCHANGED <<iteration, scan_res, ping_maintainers, tickets, out,
                 dir, issues>>

\* a.cmp(&b)
CompareAdvisories ==
    /\ pc = "call"
    /\ call.fn = "Advisory::cmp"
    /\ ret' = Ok(AdvisoryCmp(call.a, call.b))
    /\ pc' = "returned"
    /\ UNCHANGED <<iteration, scan_res, ping_maintainers, tickets, out, call,
                 dir, issues>>

\* s.parse::<Package>(), then pname() and version() of the package
ParsePackage ==
    /\ pc = "call"
    /\ call.fn = "Package::from_str"
    /\ LET p == PackageFromStr(call.s)
       IN  ret' = IF p = None THEN Err("Version")
                  ELSE [status |-> "Ok", value |-> p[1],
                        pname |-> pname(p[1]), version |-> version(p[1])]
    /\ pc' = "returned"
    /\ UNCHANGED <<iteration, scan_res, ping_maintainers, tickets, out, call,
                 dir, issues>>

\* s.parse::<Branch>()
ParseBranch ==
    /\ pc = "call"
    /\ call.fn = "Branch::from_str"
    /\ ret' = BranchFromStr(call.s)
    /\ pc' = "returned"
    /\ UNCHANGED <<iteration, scan_res, ping_maintainers, tickets, out, call,
                 dir, issues>>

\* Branches::init(&specs)
InitBranches ==
    /\ pc = "call"
    /\ call.fn = "Branches::init"
    /\ ret' = BranchesInit(call.specs)
    /\ pc' = "returned"
    /\ UNCHANGED <<iteration, scan_res, ping_maintainers, tickets, out, call,
                 dir, issues>>

\* maintainer_contacts(&maint)
MaintainerContacts ==
    /\ pc = "call"
    /\ call.fn = "maintainer_contacts"
    /\ ret' = Ok(maintainer_contacts(call.maint))
    /\ pc' = "returned"
    /\ UNCHANGED <<iteration, scan_res, ping_maintainers, tickets, out, call,
                 dir, issues>>

\* extract_derivations(&storelisting).collect()
ExtractDerivations ==
    /\ pc = "call"
    /\ call.fn = "extract_derivations"
    /\ ret' = extract_derivations(call.storelisting)
    /\ pc' = "returned"
    /\ UNCHANGED <<iteration, scan_res, ping_maintainers, tickets, out, call,
                 dir, issues>>

\* Applicable::from_store_path(sp)
FromStorePath ==
    /\ pc = "call"
    /\ call.fn = "from_store_path"
    /\ ret' = from_store_path(call.sp)
    /\ pc' = "returned"
    /\ UNCHANGED <<iteration, scan_res, ping_maintainers, tickets, out, call,
                 dir, issues>>

\* stores.is_installed(&pi)
IsInstalled ==
    /\ pc = "call"
    /\ call.fn = "is_installed"
    /\ ret' = Ok(is_installed(call.known, call.pi))
    /\ pc' = "returned"
    /\ UNCHANGED <<iteration, scan_res, ping_maintainers, tickets, out, call,
                 dir, issues>>

\* Applicable::extract_derivations(storedump).collect()
ApplicableExtract ==
    /\ pc = "call"
    /\ call.fn = "Applicable::extract_derivations"
    /\ ret' = Applicable_extract_derivations(call.storedump)
    /\ pc' = "returned"
    /\ UNCHANGED <<iteration, scan_res, ping_maintainers, tickets, out, call,
                 dir, issues>>

\* Applicable::new(dir)?.filter(tickets)
ApplicableFilter ==
    /\ pc = "call"
    /\ call.fn = "Applicable::filter"
    /\ LET a == Applicable_new(call.dir)
       IN  ret' = IF a.status = "panic" THEN a
                  ELSE Ok(Applicable_filter(a.known, call.tickets))
    /\ pc' = "returned"
    /\ UNCHANGED <<iteration, scan_res, ping_maintainers, tickets, out, call,
                 dir, issues>>

LibNext ==
    \/ ParseAdvisory \/ ReparseAdvisory \/ CompareAdvisories
    \/ ParsePackage
    \/ ParseBranch \/ InitBranches
    \/ MaintainerContacts
    \/ ExtractDerivations \/ FromStorePath \/ IsInstalled
    \/ ApplicableExtract \/ ApplicableFilter

LibSpec == LibInit /\ [][LibNext]_vars

(***************************************************************************)
(* Issue creation (main.rs, tracker/): the tickets of a run are submitted  *)
(* to the tracker and recorded as files of the iteration directory.        *)
(***************************************************************************)
\* MAX_ISSUES of main.rs and of tracker/github.rs
MAX_ISSUES == 30

MaxTickets == 31   \* tickets in the list handed to the tracker
MaxRuns == 3       \* invocations over the same list and directory

\* Ticket::name
ticket_name(t) == t.pkg.name

\* Ticket::file_name, and file_name of tracker/file.rs: "ticket.<name>.md"
file_name(t) == <<116, 105, 99, 107, 101, 116, 46>> \o ticket_name(t) \o <<46, 109, 100>>

\* json_file of tracker/github.rs: "github.<name>.json"
json_file(t) == <<103, 105, 116, 104, 117, 98, 46>> \o ticket_name(t) \o <<46, 106, 115, 111, 110>>

\* fs::File::create and the write of text behind it: the file is created or
\* truncated and holds the text, "" when the write has failed
CreateFile(d, f, text) ==
    LET n == IF f \in DOMAIN d THEN d[f].written ELSE 0
    IN  (f :> [text |-> text, written |-> n + 1]) @@ d

\* no issue and no comment
NoIssue == [created |-> 0, comments |-> 0]

\* the open issues the search of GitHub::related finds for a ticket: some
\* for "p-1", none for another package
HasRelated(t) == ticket_name(t) = <<112, 45, 49>>

\* a retain that keeps every ticket
Remaining_All(tkts, d) == tkts

\* tickets.retain(..) of make_issues: the tickets without their file
Remaining(tkts, d) == SelectSeq(tkts, LAMBDA t : file_name(t) \notin DOMAIN d)

\* tickets.retain(..) of GitHub::create_issues
GitHubRemaining(tkts, d) == SelectSeq(tkts, LAMBDA t : json_file(t) \notin DOMAIN d)

\* a take without limit
Batch_All(remaining) == remaining

\* a take of one ticket fewer
Batch_Fewer(remaining) ==
    SubSeq(remaining, 1, IF Len(remaining) < MAX_ISSUES - 1 THEN Len(remaining)
                         ELSE MAX_ISSUES - 1)

\* .take(MAX_ISSUES)
Batch(remaining) ==
    SubSeq(remaining, 1, IF Len(remaining) < MAX_ISSUES THEN Len(remaining)
                         ELSE MAX_ISSUES)

\* the failure of an invocation: none, or the step that fails for the
\* ticket at a position of the batch
NoFailure == [at |-> 0, step |-> "none"]

FailPositions == {1, 2, MAX_ISSUES}

Failures(steps, n) ==
    {NoFailure} \cup {[at |-> k, step |-> x] : k \in FailPositions \cap 1..n, x \in steps}

StepAt(fail, k) == IF fail.at = k THEN fail.step ELSE "none"

\* the outcome of the steps taken for one ticket: the issues and comments
\* created, the text of the file written if one was, and Ok or Err
Outcome(status, created, comments, file) ==
    [status |-> status, created |-> created, comments |-> comments, file |-> file]

\* tracker.create_issue(tkt): the tracker creates the issue, or fails
create_issue(t, step) ==
    IF step = "create" THEN Outcome("Err", 0, 0, None) ELSE Outcome("Ok", 1, 0, None)

\* Ticket::write(file_name): File::create, then the rendered ticket
Ticket_write(t, step) ==
    IF step = "open" THEN Outcome("Err", 0, 0, None)
    ELSE IF step = "write" THEN Outcome("Err", 0, 0, Some(""))
    ELSE Outcome("Ok", 0, 0, Some("ticket"))

\* create of main.rs for one ticket
create(t, step) ==
    LET c == create_issue(t, step)
        w == Ticket_write(t, step)
    IN  IF c.status = "Err" THEN c
        ELSE Outcome(w.status, c.created, c.comments, w.file)

\* the directory and the tracker after the outcomes outs of the tickets
\* tkts, the file of ticket k being files[k]
Effects(d, iss, tkts, files, outs) ==
    LET K == 1..Len(tkts)
        made == {k \in K : outs[k].file # None}
        at(f) == CHOOSE k \in made : files[k] = f
        of(x) == CHOOSE k \in K : ticket_name(tkts[k]) = x
    IN  [dir |-> [f \in DOMAIN d \cup {files[k] : k \in made} |->
                     IF \E k \in made : files[k] = f
                     THEN CreateFile(d, f, outs[at(f)].file[1])[f]
                     ELSE d[f]],
         issues |-> [x \in DOMAIN iss |->
                     IF \E k \in K : ticket_name(tkts[k]) = x
                     THEN [created |-> iss[x].created + outs[of(x)].created,
                           comments |-> iss[x].comments + outs[of(x)].comments]
                     ELSE iss[x]]]

\* the tickets whose steps ended in an error
Failed(tkts, outs) ==
    {ticket_name(tkts[k]) : k \in {j \in 1..Len(tkts) : outs[j].status = "Err"}}

\* make_issues(tickets, iterdir, tracker): the futures of the batch touch
\* different files and issues, so every interleaving ends in the same
\* state; the error of a future is logged
make_issues(tkts, d, iss, fail) ==
    LET remaining == Remaining(tkts, d)
        len == Len(remaining)
        batch == Batch(remaining)
        outs == [k \in 1..Len(batch) |-> create(batch[k], StepAt(fail, k))]
        e == Effects(d, iss, batch, [k \in 1..Len(batch) |-> file_name(batch[k])], outs)
    IN  [dir |-> e.dir, issues |-> e.issues,
         ret |-> [status |-> "Ok",
                  submitted |-> [k \in 1..Len(batch) |-> ticket_name(batch[k])],
                  errors |-> Failed(batch, outs),
                  warned |-> len > MAX_ISSUES]]

\* GitHub::create_and_comment: create, related and, when the search finds
\* something, comment
create_and_comment(t, step) ==
    IF step = "create" THEN Outcome("Err", 0, 0, None)
    ELSE IF step = "related" THEN Outcome("Err", 1, 0, None)
    ELSE IF ~HasRelated(t) THEN Outcome("Ok", 1, 0, None)
    ELSE IF step = "comment" THEN Outcome("Err", 1, 0, None)
    ELSE Outcome("Ok", 1, 1, None)

\* SavedIssue::write: File::create(json_file), then the JSON text
SavedIssue_write(t, step) ==
    IF step = "open" THEN Outcome("Err", 0, 0, None)
    ELSE IF step = "write" THEN Outcome("Err", 0, 0, Some(""))
    ELSE Outcome("Ok", 0, 0, Some("issue"))

\* the body of the loop of GitHub::create_issues for one ticket
GitHubOne(t, step) ==
    LET c == create_and_comment(t, step)
        w == SavedIssue_write(t, step)
    IN  IF c.status = "Err" THEN c
        ELSE Outcome(w.status, c.created, c.comments, w.file)

\* the tickets a loop with "?" gets to: those up to the first error
Reached(tkts, outs) ==
    LET bad == {k \in 1..Len(tkts) : outs[k].status = "Err"}
    IN  IF bad = {} THEN Len(tkts) ELSE CHOOSE k \in bad : \A j \in bad : k <= j

\* GitHub::create_issues(tickets, dir)
GitHub_create_issues(tkts, d, iss, fail) ==
    LET remaining == GitHubRemaining(tkts, d)
        batch == Batch(remaining)
        all == [k \in 1..Len(batch) |-> GitHubOne(batch[k], StepAt(fail, k))]
        n == Reached(batch, all)
        done == SubSeq(batch, 1, n)
        outs == SubSeq(all, 1, n)
        e == Effects(d, iss, done, [k \in 1..n |-> json_file(done[k])], outs)
        status == IF Failed(done, outs) = {} THEN "Ok" ELSE "Err"
    IN  [dir |-> e.dir, issues |-> e.issues,
         ret |-> [status |-> status,
                  submitted |-> [k \in 1..n |-> ticket_name(done[k])],
                  errors |-> Failed(done, outs),
                  warned |-> status = "Ok" /\ Len(remaining) > MAX_ISSUES]]

\* the body of the loop of File::create_issues for one ticket: the file is
\* created and the ticket written
FileOne(t, step) ==
    IF step = "open" THEN Outcome("Err", 0, 0, None)
    ELSE IF step = "write" THEN Outcome("Err", 0, 0, Some(""))
    ELSE Outcome("Ok", 0, 0, Some("ticket"))

\* File::create_issues(tickets, dir): submitted are the tickets whose file
\* has been created
File_create_issues(tkts, d, iss, fail) ==
    LET all == [k \in 1..Len(tkts) |-> FileOne(tkts[k], StepAt(fail, k))]
        n == Reached(tkts, all)
        done == SubSeq(tkts, 1, n)
        outs == SubSeq(all, 1, n)
        e == Effects(d, iss, done, [k \in 1..n |-> file_name(done[k])], outs)
        emitted == SelectSeq([k \in 1..n |-> <<ticket_name(done[k]), outs[k].file>>],
                             LAMBDA p : p[2] # None)
    IN  [dir |-> e.dir, issues |-> e.issues,
         ret |-> [status |-> IF Failed(done, outs) = {} THEN "Ok" ELSE "Err",
                  submitted |-> [k \in 1..Len(emitted) |-> emitted[k][1]],
                  errors |-> Failed(done, outs),
                  warned |-> FALSE]]

\* the explored ticket lists: tickets for "p-1", "p-2", ... in the order of
\* ticket_list, few of them or about as many as a batch holds
TicketCounts == {n \in 0..MaxTickets : n <= 2 \/ n >= MAX_ISSUES}

TicketsOf(n) == [i \in 1..n |-> TicketNew(2, PackageFromStr(<<112, 45>> \o Decimal(i))[1])]

\* the tickets whose file an earlier run has left in the directory: none,
\* the second one, or all
ExistingSets(n) == {{}, {2} \cap 1..n, 1..n}

\* the file the function keeps for a ticket
OutputFile(fn, t) == IF fn = "GitHub::create_issues" THEN json_file(t) ELSE file_name(t)

TrackerFns == {"make_issues", "GitHub::create_issues", "File::create_issues"}

TrackerInit ==
    /\ iteration = 2
    /\ scan_res = <<>>
    /\ ping_maintainers = FALSE
    /\ out = NotRendered
    /\ pc = "invoke"
    /\ ret = NoReturn
    /\ \E n \in TicketCounts, fn \in TrackerFns, reliable \in BOOLEAN :
          \E E \in ExistingSets(n) :
             /\ tickets = TicketsOf(n)
             /\ call = [fn |-> fn, reliable |-> reliable, run |-> 0]
             /\ dir = [f \in {OutputFile(fn, TicketsOf(n)[i]) : i \in E} |->
                          [text |-> IF fn = "GitHub::create_issues" THEN "issue"
                                    ELSE "ticket",
                           written |-> 0]]
             /\ issues = [x \in {ticket_name(TicketsOf(n)[i]) : i \in 1..n} |-> NoIssue]

\* an invocation of function fn that leaves the outcome r
Invoke(fn, r) ==
    /\ pc \in {"invoke", "invoked"}
    /\ call.fn = fn
    /\ call.run < MaxRuns
    /\ dir' = r.dir
    /\ issues' = r.issues
    /\ ret' = r.ret
    /\ call' = [call EXCEPT !.run = @ + 1]
    /\ pc' = "invoked"
    /\ UNCHANGED <<iteration, scan_res, ping_maintainers, tickets, out>>

\* the failures of an invocation over a batch of n tickets: none where the
\* tracker and the file system are reliable
FailuresOf(steps, n) == IF call.reliable THEN {NoFailure} ELSE Failures(steps, n)

\* make_issues(tickets, &iterdir, tracker)
MakeIssues ==
    \E fail \in FailuresOf({"create", "open", "write"}, Len(Batch(Remaining(tickets, dir)))) :
        Invoke("make_issues", make_issues(tickets, dir, issues, fail))

\* GitHub::create_issues(tickets, dir)
GitHubCreateIssues ==
    \E fail \in FailuresOf({"create", "related", "comment", "open", "write"},
                           Len(Batch(GitHubRemaining(tickets, dir)))) :
        Invoke("GitHub::create_issues", GitHub_create_issues(tickets, dir, issues, fail))

\* File::create_issues(tickets, dir)
FileCreateIssues ==
    \E fail \in FailuresOf({"open", "write"}, Len(tickets)) :
        Invoke("File::create_issues", File_create_issues(tickets, dir, issues, fail))

TrackerNext == MakeIssues \/ GitHubCreateIssues \/ FileCreateIssues

TrackerSpec == TrackerInit /\ [][TrackerNext]_vars

\* the run is repeated, as the warning of make_issues asks for ("rerun with
\* '-R'"), until the bound on the invocations is reached
TrackerLiveSpec == TrackerSpec /\ WF_vars(MakeIssues)

(***************************************************************************)
(* Branches::scan and Branches::load (branches.rs): the results of a scan  *)
(* are kept as snapshots in the iteration directory and read back.         *)
(***************************************************************************)
\* Branch::vulnix_json: "vulnix.<name>.json"
vulnix_json(b) == <<118, 117, 108, 110, 105, 120, 46>> \o b.name \o <<46, 106, 115, 111, 110>>

\* the JSON of a result: the package and the advisories are written as
\* strings, the maintainers by the derived Serialize
ResultToJson(r) ==
    [name |-> r.pkg.name,
     affected_by |-> [i \in 1..Len(r.affected_by) |-> AdvisoryToString(r.affected_by[i])],
     cvssv3_basescore |-> {<<AdvisoryToString(a), r.cvssv3_basescore[a]>> :
                              a \in DOMAIN r.cvssv3_basescore},
     maintainers |-> r.maintainers]

\* the result read from its JSON: Package and Advisory are parsed from
\* their strings, an error of either is an error of the whole
ResultFromJson(j) ==
    LET pkg == PackageFromStr(j.name)
        advs == [i \in 1..Len(j.affected_by) |-> AdvisoryFromStr(j.affected_by[i])]
        keys == {<<AdvisoryFromStr(p[1]), p[2]>> : p \in j.cvssv3_basescore}
    IN  IF \/ pkg = None
           \/ \E i \in 1..Len(advs) : advs[i].status = "Err"
           \/ \E k \in keys : k[1].status = "Err"
        THEN Err("Json")
        ELSE Ok(VulnixRes(pkg[1],
                          [i \in 1..Len(advs) |-> advs[i].value],
                          [a \in {k[1].value : k \in keys} |->
                              (CHOOSE k \in keys : k[1].value = a)[2]],
                          j.maintainers))

\* snapshot(scan_res, dest): the file is created and the JSON written
snapshot(d, results, dest) ==
    CreateFile(d, dest, [i \in 1..Len(results) |-> ResultToJson(results[i])])

\* Branches::scan(dir): found[b] is what the scanner reports for branch b,
\* maintainers added, and the scanner fails for the branch at position
\* failing, if that is not 0; a branch without findings is passed over
Branches_scan(specs, found, failing, d) ==
    LET n == IF failing = 0 THEN Len(specs) ELSE failing - 1
        kept == {k \in 1..n : found[specs[k]] # <<>>}
        at(f) == CHOOSE k \in kept : vulnix_json(specs[k]) = f
    IN  [dir |-> [f \in DOMAIN d \cup {vulnix_json(specs[k]) : k \in kept} |->
                     IF \E k \in kept : vulnix_json(specs[k]) = f
                     THEN snapshot(d, found[specs[at(f)]], f)[f]
                     ELSE d[f]],
         ret |-> IF failing = 0
                 THEN Ok([b \in {specs[k] : k \in kept} |-> found[b]])
                 ELSE Err("Scan failed")]

\* Branches::load(dir): every branch's snapshot is opened and read
Branches_load(specs, d) ==
    LET read(b) == [i \in 1..Len(d[vulnix_json(b)].text) |->
                       ResultFromJson(d[vulnix_json(b)].text[i])]
    IN  IF \E k \in 1..Len(specs) : vulnix_json(specs[k]) \notin DOMAIN d
        THEN Err("Error while loading vulnix results")
        ELSE IF \E k \in 1..Len(specs) :
                   \E i \in 1..Len(read(specs[k])) : read(specs[k])[i].status = "Err"
        THEN Err("Error while loading vulnix results")
        ELSE Ok([b \in Range(specs) |->
                    [i \in 1..Len(read(b)) |-> read(b)[i].value]])

\* the explored branch lists, as Branches::init accepts them
BranchLists == {<<BranchA>>, <<BranchA, BranchAB>>, <<BranchAB, BranchA>>}

\* the explored findings for a branch: none, one result with scores or
\* maintainers, or two results
Findings ==
    {<<>>} \cup {<<r>> : r \in ScoreFamily \cup MaintFamily}
           \cup {<<r, q>> : r \in PlainFamily, q \in PlainFamily}

\* the directory is empty, or holds the snapshot an earlier scan has
\* written for branch "a"
Snapshots ==
    {<<>>,
     snapshot(<<>>, <<VulnixRes(PackageFromStr(<<97, 45, 49>>)[1], <<CVE_2019_10000>>, NoScores, <<>>)>>,
              vulnix_json(BranchA))}

ReplayInit ==
    /\ iteration = 2
    /\ scan_res = <<>>
    /\ ping_maintainers = FALSE
    /\ tickets = <<>>
    /\ out = NotRendered
    /\ pc = "scan"
    /\ ret = NoReturn
    /\ issues = <<>>
    /\ dir \in Snapshots
    /\ \E specs \in BranchLists :
          \E found \in [Range(specs) -> Findings], failing \in 0..Len(specs) :
             call = [fn |-> "Branches::scan", specs |-> specs, found |-> found,
                     failing |-> failing]

\* branches.scan(dir, r_opt)
Scan ==
    /\ pc = "scan"
    /\ LET r == Branches_scan(call.specs, call.found, call.failing, dir)
       IN  /\ dir' = r.dir
           /\ ret' = r.ret
           /\ scan_res' = IF r.ret.status = "Ok" THEN r.ret.value ELSE <<>>
           /\ pc' = IF r.ret.status = "Ok" THEN "scanned" ELSE "scan failed"
    /\ UNCHANGED <<iteration, ping_maintainers, tickets, out, call, issues>>

\* branches.load(dir) of a later run with the same branches and directory
Load ==
    /\ pc \in {"scanned", "scan failed"}
    /\ ret' = Branches_load(call.specs, dir)
    /\ pc' = IF pc = "scanned" THEN "loaded" ELSE "loaded after failure"
    /\ UNCHANGED <<iteration, scan_res, ping_maintainers, tickets, out, call,
                   dir, issues>>

ReplayNext == Scan \/ Load

ReplaySpec == ReplayInit /\ [][ReplayNext]_vars

(***************************************************************************)
(* Properties.                                                             *)
(***************************************************************************)
\* ticket_list has just returned; rendering leaves tickets as they are
Returned == pc = "listed"

Rendered == out.status = "ok"

\* the results of scan_res for package P
ResultsFor(P) ==
    UNION {{scan_res[b][i] : i \in {k \in 1..Len(scan_res[b]) : scan_res[b][k].pkg = P}} :
           b \in DOMAIN scan_res}

\* the branches with a result for package P that lists advisory A
ListedBy(P, A) ==
    {b \in DOMAIN scan_res : \E i \in 1..Len(scan_res[b]) :
        scan_res[b][i].pkg = P /\ A \in Range(scan_res[b][i].affected_by)}

\* the tickets for package P that hold advisory A
Holding(P, A) ==
    {i \in 1..Len(tickets) : tickets[i].pkg = P /\ A \in DOMAIN tickets[i].affected}

\* the branches referenced by the advisories of ticket t
Referenced(t) == UNION {Range(t.affected[a].branches) : a \in DOMAIN t.affected}

\* C1: the ticket for P holds A iff some branch's results for P list A; A is
\* then held once and the branches of its Detail are, as a set, exactly the
\* branches whose results for P list A.
C1_AffectedIsUnionOfBranches ==
    Returned =>
        \A P \in Pkgs, A \in Advs :
            /\ (Holding(P, A) # {}) <=> (ListedBy(P, A) # {})
            /\ Cardinality(Holding(P, A)) <= 1
            /\ \A i \in Holding(P, A) :
                 Range(tickets[i].affected[A].branches) = ListedBy(P, A)

\* C1 witness: a ticket with an advisory found on two branches and another
\* advisory found on one of them only
C1_Witness ==
    /\ pc = "listed"
    /\ \E i \in 1..Len(tickets) : \E A, B \in DOMAIN tickets[i].affected :
         /\ Cardinality(Range(tickets[i].affected[A].branches)) = 2
         /\ Cardinality(Range(tickets[i].affected[B].branches)) = 1

\* C2: no Detail of a returned ticket lists a branch twice.
C2_NoBranchTwice ==
    Returned =>
        \A i \in 1..Len(tickets) : \A A \in DOMAIN tickets[i].affected :
            LET bs == tickets[i].affected[A].branches
            IN  \A j, k \in 1..Len(bs) : bs[j] = bs[k] => j = k

\* C3: no returned ticket has an empty affected map.
C3_NoEmptyTicket ==
    Returned => \A i \in 1..Len(tickets) : DOMAIN tickets[i].affected # {}

\* C4: the returned list is strictly ascending by package (one ticket per
\* package, sorted), whatever the iteration order of the maps.
C4_StrictlyAscendingByPackage ==
    Returned =>
        \A i, j \in 1..Len(tickets) :
            i < j => PackageLess(tickets[i].pkg, tickets[j].pkg)

\* C4 witness: two tickets were returned
C4_Witness == pc = "listed" /\ Len(tickets) = 2

\* every advisory has the same score in every result that scores it
WellFormed(scan) ==
    \A b1, b2 \in DOMAIN scan :
        \A i \in 1..Len(scan[b1]), j \in 1..Len(scan[b2]) :
            \A a \in (DOMAIN scan[b1][i].cvssv3_basescore)
                        \cap (DOMAIN scan[b2][j].cvssv3_basescore) :
                scan[b1][i].cvssv3_basescore[a] = scan[b2][j].cvssv3_basescore[a]

\* the inputs that hold the results of scan in some order inside each branch
ResPerms(scan) ==
    {f \in [DOMAIN scan -> UNION {PermsOfSeq(scan[b]) : b \in DOMAIN scan}] :
        \A b \in DOMAIN scan : f[b] \in PermsOfSeq(scan[b])}

\* C5: for a well-formed input, every order of the results inside the
\* branches and every iteration order of the branches gives the ticket list
\* that was returned.
C5_FoldOrderIndependent ==
    (Returned /\ WellFormed(scan_res)) =>
        \A s2 \in ResPerms(scan_res) :
            ticket_list(iteration, s2, ping_maintainers) = {tickets}

\* C5 witness: a ticket built from the results of two branches, two of them
\* for the same package and advisory
C5_Witness ==
    /\ pc = "listed"
    /\ WellFormed(scan_res)
    /\ \E b1, b2 \in DOMAIN scan_res : b1 # b2 /\ scan_res[b1] # <<>> /\ scan_res[b2] # <<>>
    /\ \E i \in 1..Len(tickets) : \E A \in DOMAIN tickets[i].affected :
         Cardinality(Range(tickets[i].affected[A].branches)) = 2

\* the maintainers of all results for package P
MaintainersOf(P) == UNION {Range(r.maintainers) : r \in ResultsFor(P)}

\* C6: without ping_maintainers every ticket has no maintainers; with it the
\* maintainers of a ticket are strictly ascending and are, as a set, the
\* maintainers of all results for its package.
C6_Maintainers ==
    Returned =>
        \A i \in 1..Len(tickets) :
            LET m == tickets[i].maintainers
            IN  IF ping_maintainers
                THEN /\ \A j, k \in 1..Len(m) : j < k => MaintainerLess(m[j], m[k])
                     /\ Range(m) = MaintainersOf(tickets[i].pkg)
                ELSE m = <<>>

\* C6 witness: a ticket with two maintainers whose results named three
C6_Witness ==
    /\ pc = "listed"
    /\ ping_maintainers
    /\ \E i \in 1..Len(tickets) :
         /\ Len(tickets[i].maintainers) = 2
         /\ \E r1, r2 \in ResultsFor(tickets[i].pkg) :
              r1 # r2 /\ Len(r1.maintainers) + Len(r2.maintainers) >= 3

\* C7: the lines of the scored advisories are in descending score order,
\* those of equal score in ascending (year, id) order, and every iteration
\* order of the affected map gives these lines.
C7_ScoredOrder ==
    Rendered =>
        /\ \A i, j \in 1..Len(out.lines) :
             (i < j /\ out.lines[i].details.cvss # None /\ out.lines[j].details.cvss # None) =>
                LET si == out.lines[i].details.cvss[1]
                    sj == out.lines[j].details.cvss[1]
                    ai == out.lines[i].advisory
                    aj == out.lines[j].advisory
                IN  \/ si > sj
                    \/ si = sj /\ (ai.year < aj.year \/ (ai.year = aj.year /\ ai.id < aj.id))
        /\ \A iter \in SeqPerms(DOMAIN tickets[out.of].affected) :
             AdvisoryLines(tickets[out.of], iter) = {out.lines}

\* C7 witness: CVE-2019-9999 rendered before CVE-2019-10000, both with 8.8
C7_Witness ==
    /\ Rendered
    /\ Len(out.lines) = 2
    /\ out.lines[1].advisory = CVE_2019_9999 /\ out.lines[1].details.cvss = Some(88)
    /\ out.lines[2].advisory = CVE_2019_10000 /\ out.lines[2].details.cvss = Some(88)

\* C8: no line of an advisory without score precedes the line of an advisory
\* with a score.
C8_UnscoredAfterScored ==
    Rendered =>
        \A i, j \in 1..Len(out.lines) :
            i < j => ~(out.lines[i].details.cvss = None /\ out.lines[j].details.cvss # None)

\* C9: a line carries the score exactly when the advisory has one, and its
\* branch names are those of the Detail in strictly ascending order.
C9_AdvisoryLine ==
    Rendered =>
        \A k \in 1..Len(out.lines) :
            LET d == tickets[out.of].affected[out.lines[k].advisory]
                names == out.lines[k].details.names
            IN  /\ out.lines[k].details.cvss = d.score
                /\ Range(names) = {b.name : b \in Range(d.branches)}
                /\ \A i, j \in 1..Len(names) : i < j => StrLess(names[i], names[j])

\* "<name>: <first 11 bytes of rev>"
ExpectedEntry(b) == b.name \o <<58, 32>> \o [i \in 1..11 |-> b.rev[i]]

\* C10: the footer holds one entry "name: rev[..11]" for every branch that
\* an advisory of the ticket references and none for another scanned branch;
\* the entries are strictly ascending.
C10_Footer ==
    Rendered =>
        /\ Range(out.footer) = {ExpectedEntry(b) : b \in Referenced(tickets[out.of])}
        /\ \A i, j \in 1..Len(out.footer) :
             i < j => StrLess(out.footer[i], out.footer[j])
        /\ \A b \in (DOMAIN scan_res) \ Referenced(tickets[out.of]) :
             \A e \in Range(out.footer) :
                SubSeq(e, 1, Len(b.name) + 2) # b.name \o <<58, 32>>

\* C10 witness: a ticket with two advisories on the same branch, rendered
\* while another branch was scanned
C10_Witness ==
    /\ Rendered
    /\ Len(out.lines) = 2
    /\ Len(out.footer) = 1
    /\ (DOMAIN scan_res) \ Referenced(tickets[out.of]) # {}

\* the advisories of ticket t that carry a score
ScoredOf(t) == {a \in DOMAIN t.affected : t.affected[a].score # None}

\* the headline without the score suffix
HeadlineOf(t) ==
    LET n == Cardinality(DOMAIN t.affected)
    IN  RoundupText \o Decimal(t.iteration) \o <<58, 32>> \o t.pkg.name \o <<58, 32>>
        \o Decimal(n) \o <<32>> \o (IF n = 1 THEN AdvisoryWord ELSE AdvisoriesWord)

\* C11: the summary is "Vulnerability roundup {iteration}: {package}: {n}
\* advisory|advisories", the word being "advisory" exactly when n = 1; the
\* suffix " [{score}]" is there exactly when some advisory has a score, and
\* then shows a score of the ticket that no other score of the ticket exceeds.
C11_Summary ==
    pc = "summarised" =>
        LET t == tickets[call.of]
        IN  /\ ScoredOf(t) = {} => ret.value = HeadlineOf(t)
            /\ ScoredOf(t) # {} =>
                 \E a \in ScoredOf(t) :
                    /\ \A b \in ScoredOf(t) : t.affected[b].score[1] <= t.affected[a].score[1]
                    /\ ret.value = HeadlineOf(t) \o <<32, 91>>
                                   \o FormatScore(t.affected[a].score[1]) \o <<93>>

\* a headline of a ticket whose two advisories have different scores
C11_Witness ==
    /\ pc = "summarised"
    /\ LET t == tickets[call.of]
       IN  /\ Cardinality(ScoredOf(t)) = 2
           /\ \E a, b \in ScoredOf(t) : t.affected[a].score[1] < t.affected[b].score[1]

AllAsciiDigits(d) == \A i \in 1..Len(d) : d[i] \in 48..57

Applied(fn) == pc = "returned" /\ call.fn = fn

\* C12: parsing an advisory succeeds exactly for "CVE-" + four digits + "-"
\* + one or more digits whose numbers fit the year and id fields, and then
\* yields that (year, id); every other string yields the parse error.
C12_AdvisoryParse ==
    Applied("Advisory::from_str") =>
        LET p == call.parts
            wellFormed ==
                /\ p.prefix = CvePrefix
                /\ Len(p.year) = 4 /\ AllAsciiDigits(p.year)
                /\ p.sep = <<45>>
                /\ Len(p.id) >= 1 /\ AllAsciiDigits(p.id)
                /\ p.trailer = <<>>
        IN  IF wellFormed /\ p.id \notin TooLargeIds
            THEN ret = Ok(Advisory(NumeralValue(p.year), NumeralValue(p.id)))
            ELSE ret = Err("ParseCVE")

\* "CVE-2019-10000" has been parsed
C12_Witness ==
    /\ Applied("Advisory::from_str")
    /\ call.s = CvePrefix \o <<50, 48, 49, 57>> \o <<45>> \o <<49, 48, 48, 48, 48>>
    /\ ret = Ok(CVE_2019_10000)

\* C13: for every advisory x that parsing returns, parsing the string of
\* to_string(x) succeeds and returns x.
C13_RoundTrip ==
    pc = "reparsed" => ret = Ok(call.x)

\* C14: a < b iff year(a) < year(b), or the years are equal and
\* id(a) < id(b); the order is total and Equal means equal advisories.
C14_NumericOrder ==
    Applied("Advisory::cmp") =>
        LET a == call.a
            b == call.b
            less(x, y) == x.year < y.year \/ (x.year = y.year /\ x.id < y.id)
        IN  /\ ret.value = "Less" <=> less(a, b)
            /\ ret.value = "Greater" <=> less(b, a)
            /\ ret.value = "Equal" <=> a = b
            /\ \A c \in AdvUniverse :
                 AdvisoryCmp(a, b) = "Less" /\ AdvisoryCmp(b, c) = "Less"
                     => AdvisoryCmp(a, c) = "Less"

\* CVE-2019-9999 is less than CVE-2019-10000 although its string is greater
C14_Witness ==
    /\ Applied("Advisory::cmp")
    /\ call.a = CVE_2019_9999 /\ call.b = CVE_2019_10000
    /\ ret.value = "Less"
    /\ StrLess(AdvisoryToString(call.b), AdvisoryToString(call.a))

\* C15: parsing a package succeeds iff the string has a "-" immediately
\* followed by a digit; pname() is the text before the first such "-" and
\* version() the text from the digit after it, so pname + "-" + version is
\* the input and the version is never empty; other strings fail with the
\* version error.
C15_PackageParse ==
    Applied("Package::from_str") =>
        LET s == call.s
            split(i) == i < Len(s) /\ s[i] = 45 /\ s[i + 1] \in 48..57
        IN  IF \E i \in 1..Len(s) : split(i)
            THEN /\ ret.status = "Ok"
                 /\ ret.value.name = s
                 /\ ret.pname \o <<45>> \o ret.version = s
                 /\ ret.version # <<>> /\ ret.version[1] \in 48..57
                 /\ \A i \in 1..Len(ret.pname) : ~split(i)
            ELSE ret = Err("Version")

\* "a-1-1" has been parsed: the name is "a", the version "1-1"
C15_Witness ==
    /\ Applied("Package::from_str")
    /\ call.s = <<97, 45, 49, 45, 49>>
    /\ ret.status = "Ok" /\ ret.pname = <<97>> /\ ret.version = <<49, 45, 49>>

\* C16: parsing a branch accepts exactly NAME and NAME=REV, NAME non-empty
\* without "/", "=" and white space, REV non-empty without white space; the
\* branch has name NAME and rev REV, or rev NAME without "=REV"; every other
\* string fails with the invalid-branch-spec error.
C16_BranchParse ==
    Applied("Branch::from_str") =>
        LET s == call.s
            isName(n) ==
                n # <<>> /\ \A i \in 1..Len(n) : n[i] \notin {47, 61} /\ ~IsWhiteSpace(n[i])
            isRev(r) == r # <<>> /\ \A i \in 1..Len(r) : ~IsWhiteSpace(r[i])
            cuts == {k \in 1..Len(s) : /\ s[k] = 61
                                       /\ isName(SubSeq(s, 1, k - 1))
                                       /\ isRev(SubSeq(s, k + 1, Len(s)))}
        IN  IF isName(s) THEN ret = Ok([name |-> s, rev |-> s])
            ELSE IF cuts # {}
            THEN \E k \in cuts :
                    ret = Ok([name |-> SubSeq(s, 1, k - 1), rev |-> SubSeq(s, k + 1, Len(s))])
            ELSE ret = Err("Invalid")

\* C17: Branches::init succeeds iff the names of the specs are pairwise
\* distinct, whatever the revs; on success the stored list is the given
\* list in the same order.
C17_BranchesInit ==
    Applied("Branches::init") =>
        LET specs == call.specs
            distinct == \A i, j \in 1..Len(specs) : i # j => specs[i].name # specs[j].name
        IN  /\ ret.status = "Ok" <=> distinct
            /\ ret.status = "Ok" => ret.value.specs = specs
            /\ ret.status # "Ok" => ret.status = "Err"

\* two specs of one name and different revs have been refused
C17_Witness ==
    /\ Applied("Branches::init")
    /\ Len(call.specs) = 2
    /\ call.specs[1].name = call.specs[2].name
    /\ call.specs[1].rev # call.specs[2].rev
    /\ ret.status = "Err"

\* the entries that are not lists, in the order of a left-to-right
\* depth-first walk
RECURSIVE DepthFirst(_)
DepthFirst(maint) ==
    IF maint = <<>> THEN <<>>
    ELSE (IF maint[1].tag = "Nested" THEN DepthFirst(maint[1].sub) ELSE <<maint[1]>>)
         \o DepthFirst(Tail(maint))

HasHandle(m) == m.tag = "Structured" /\ m.github # None

\* the depth of nesting of a list of maintainers
RECURSIVE Depth(_)
Depth(maint) ==
    IF maint = <<>> THEN 0
    ELSE LET d == IF maint[1].tag = "Nested" THEN 1 + Depth(maint[1].sub) ELSE 0
             r == Depth(Tail(maint))
         IN  IF d > r THEN d ELSE r

\* C18: maintainer_contacts returns the handles of exactly the structured
\* maintainers that carry a handle, nested lists at any depth included, in
\* the order of a left-to-right depth-first walk; unstructured entries and
\* structured entries without handle contribute nothing.
C18_MaintainerContacts ==
    Applied("maintainer_contacts") =>
        LET walk == SelectSeq(DepthFirst(call.maint), HasHandle)
        IN  ret.value = [i \in 1..Len(walk) |-> walk[i].github[1]]

\* a handle two lists deep has been returned in front of a handle of the
\* outer list
C18_Witness ==
    /\ Applied("maintainer_contacts")
    /\ Depth(call.maint) = 2
    /\ Len(call.maint) = 2 /\ call.maint[1].tag = "Nested" /\ HasHandle(call.maint[2])
    /\ Len(ret.value) = 2 /\ ret.value[1] # ret.value[2]

\* what the three shapes make of a line: nothing, or one name
ShapeOf(line) ==
    LET t == Trim(line)
    IN  IF t = <<>> THEN <<>>
        ELSE IF Len(t) > 44 /\ t[44] = 45 THEN <<SubSeq(t, 45, Len(t))>>
        ELSE IF Len(t) > 33 /\ t[33] = 45 THEN <<SubSeq(t, 34, Len(t))>>
        ELSE <<t>>

RECURSIVE ShapesOf(_)
ShapesOf(ls) == IF ls = <<>> THEN <<>> ELSE ShapeOf(ls[1]) \o ShapesOf(Tail(ls))

\* C19: every line is trimmed and an empty line yields nothing; otherwise
\* the name is the text from byte 44 when the line is longer than 44 bytes
\* and byte 43 is "-", else the text from byte 33 when it is longer than 33
\* bytes and byte 32 is "-", else the whole trimmed line.
C19_StoreListing ==
    /\ Applied("extract_derivations") =>
         ret = [status |-> "ok", names |-> ShapesOf(Lines(call.storelisting))]
    /\ Applied("from_store_path") =>
         ret = IF ShapeOf(call.sp) = <<>> THEN [status |-> "None"]
               ELSE [status |-> "Some", value |-> ShapeOf(call.sp)[1]]

\* C20: is_installed(p) is true iff the index holds p's full name or
\* "<name>-<output>" for an output that p declares; an entry for an output
\* that p does not declare does not make p installed.
C20_IsInstalled ==
    Applied("is_installed") =>
        LET name == call.pi.pkg
            declared == Range(call.pi.meta.outputs)
        IN  ret.value <=>
                \/ name \in call.known
                \/ \E o \in declared : (name \o <<45>> \o o) \in call.known

\* the index holds "p-1-bin", p-1 declares other outputs only and is found
\* not installed
C20_Witness ==
    /\ Applied("is_installed")
    /\ call.pi.pkg = <<112, 45, 49>>
    /\ <<112, 45, 49, 45, 98, 105, 110>> \in call.known
    /\ call.pi.meta.outputs # <<>>
    /\ <<98, 105, 110>> \notin Range(call.pi.meta.outputs)
    /\ ret.value = FALSE


(***************************************************************************)
(* Applicable: output suffixes.                                            *)
(***************************************************************************)
\* the output suffixes as a set
OutputSuffixes == Range(STRIP_OUTPUTS)

\* the name indexed for an extracted name, as the claim states it: the name
\* without the one suffix it ends in or, ending in none, the name itself
IndexedAs(name, indexed) ==
    IF \E x \in OutputSuffixes : ends_with(name, x)
    THEN \E x \in OutputSuffixes : name = indexed \o x
    ELSE indexed = name

\* the names from_store_path extracts from the lines of a dump, in order
ExtractedNames(storedump) ==
    LET ls == Lines(storedump)
    IN  SelectSeq([k \in 1..Len(ls) |-> from_store_path(ls[k])],
                  LAMBDA m : m.status = "Some")

\* C21: Applicable::extract_derivations indexes every extracted name that
\* ends in one of "-dev", "-bin", "-out", "-lib", "-ga" with exactly one
\* suffix removed and every other name unchanged, and Applicable::filter
\* over a dump with the line "/nix/store/<32 characters>-db-5.3.28-bin"
\* keeps a ticket for "db-5.3.28".
C21_StripOutputs ==
    /\ Applied("Applicable::extract_derivations") =>
          LET ex == ExtractedNames(call.storedump)
          IN  /\ ret.status = "ok"
              /\ Len(ret.names) = Len(ex)
              /\ \A k \in 1..Len(ex) : IndexedAs(ex[k].value, ret.names[k])
    /\ Applied("Applicable::filter") =>
          /\ ret.status = "Ok"
          /\ \A k \in 1..Len(call.dir) :
                \A i \in 1..Len(call.tickets) :
                   (/\ SubSeq(call.dir[k].name, 1, 1) # <<46>>
                    /\ \E l \in Range(Lines(call.dir[k].text)) :
                          l = <<47, 110, 105, 120, 47, 115, 116, 111, 114, 101, 47>> \o Hs(HashPrefixLen - 1) \o <<45, 100, 98, 45, 53, 46, 51, 46, 50, 56, 45, 98, 105, 110>>
                    /\ call.tickets[i].pkg.name = <<100, 98, 45, 53, 46, 51, 46, 50, 56>>)
                   => call.tickets[i] \in Range(ret.value)

\* a dump whose line ends in two suffixes, "-dev-bin", has been indexed
C21_Witness ==
    /\ Applied("Applicable::extract_derivations")
    /\ \E k \in 1..Len(ret.names) : ret.names[k] = <<100, 98, 45, 53, 46, 51, 46, 50, 56, 45, 100, 101, 118>>


(***************************************************************************)
(* ticket_list: scores.                                                    *)
(***************************************************************************)
\* every result of scan_res, whatever its branch and package
AllResults == UNION {Range(scan_res[b]) : b \in DOMAIN scan_res}

\* the scores the results of scan_res report for advisory A
ReportedScores(A) ==
    {r.cvssv3_basescore[A] : r \in {x \in AllResults : A \in DOMAIN x.cvssv3_basescore}}

C30_RenderingCompletes ==
    \A i \in 1..Len(tickets) :
        (pc = "rendered" /\ out.of = i) => out.status = "ok"


(***************************************************************************)
(* Issue creation.                                                         *)
(***************************************************************************)
\* function fn has been invoked at least once
Invoked(fn) == pc = "invoked" /\ call.fn = fn

\* a step that is an invocation of function fn
Invocation(fn) == call.fn = fn /\ call'.run = call.run + 1

\* the tickets of the list whose output file is in the directory
Present(fn) == {i \in 1..Len(tickets) : OutputFile(fn, tickets[i]) \in DOMAIN dir}

\* the names of the tickets without output file, in list order
MissingNames(fn) ==
    LET m == SelectSeq(tickets, LAMBDA t : OutputFile(fn, t) \notin DOMAIN dir)
    IN  [k \in 1..Len(m) |-> ticket_name(m[k])]

\* C22: an invocation of make_issues returns success, makes no creation
\* request for a ticket whose file "ticket.<package>.md" exists and leaves
\* that file as it is, and submits only tickets without a file.
C22_MakeIssuesSkips ==
    [][Invocation("make_issues") =>
          /\ ret'.status = "Ok"
          /\ \A i \in Present("make_issues") :
                /\ ticket_name(tickets[i]) \notin Range(ret'.submitted)
                /\ issues'[ticket_name(tickets[i])] = issues[ticket_name(tickets[i])]
                /\ dir'[file_name(tickets[i])] = dir[file_name(tickets[i])]
          /\ Range(ret'.submitted) \subseteq Range(MissingNames("make_issues"))]_vars

\* make_issues has submitted tickets while the file of the second ticket,
\* left by an earlier run, is still as it was
C22_Witness ==
    /\ Invoked("make_issues")
    /\ ret.submitted # <<>>
    /\ \E i \in Present("make_issues") :
          /\ dir[file_name(tickets[i])].written = 0
          /\ issues[ticket_name(tickets[i])].created = 0


\* C23: an invocation of create_issues of either tracker, GitHub or File,
\* emits nothing for a ticket whose output file, "github.<name>.json" or
\* "ticket.<name>.md", exists and leaves that file as it is.
C23_TrackersSkip ==
    [][\A fn \in {"GitHub::create_issues", "File::create_issues"} :
          Invocation(fn) =>
             \A i \in Present(fn) :
                /\ ticket_name(tickets[i]) \notin Range(ret'.submitted)
                /\ dir'[OutputFile(fn, tickets[i])] = dir[OutputFile(fn, tickets[i])]]_vars

\* the first MAX_ISSUES of the tickets without output file, in list order
FirstMissing(fn) ==
    LET m == MissingNames(fn)
    IN  SubSeq(m, 1, IF Len(m) < MAX_ISSUES THEN Len(m) ELSE MAX_ISSUES)

\* C24: an invocation of make_issues or of GitHub::create_issues sends at
\* most 30 creation requests, for the first 30 tickets of the list that
\* remain after the skipping; with more than 30 remaining it warns and
\* returns success.
C24_BatchLimit ==
    [][\A fn \in {"make_issues", "GitHub::create_issues"} :
          Invocation(fn) =>
             /\ Len(ret'.submitted) <= MAX_ISSUES
             /\ Len(ret'.submitted) <= Len(FirstMissing(fn))
             /\ ret'.submitted = SubSeq(FirstMissing(fn), 1, Len(ret'.submitted))
             /\ ret'.errors = {} =>
                   /\ ret'.submitted = FirstMissing(fn)
                   /\ ret'.status = "Ok"
                   /\ ret'.warned <=> Len(MissingNames(fn)) > MAX_ISSUES]_vars

\* an invocation over 31 tickets without file has sent 30 requests, warned
\* and returned success
C24_Witness ==
    /\ pc = "invoked"
    /\ call.fn \in {"make_issues", "GitHub::create_issues"}
    /\ call.run = 1
    /\ Len(ret.submitted) = MAX_ISSUES
    /\ ret.warned
    /\ ret.status = "Ok"

\* C25: the failure of one ticket does not stop an invocation of
\* make_issues or of GitHub::create_issues: every ticket of the batch is
\* submitted.
C25_FailureIsolated ==
    [][\A fn \in {"make_issues", "GitHub::create_issues"} :
          Invocation(fn) => ret'.submitted = FirstMissing(fn)]_vars

\* C28: over any sequence of invocations of make_issues or of
\* GitHub::create_issues with the same directory, the tracker creates at
\* most one issue for a ticket.
C28_AtMostOnce ==
    call.fn \in {"make_issues", "GitHub::create_issues"} =>
        \A x \in DOMAIN issues : issues[x].created <= 1

\* C29: with a reliable tracker and file system, repeated invocations of
\* make_issues over the same N tickets and directory lead to every ticket
\* having its file, after ceil(N/30) invocations at the latest; an
\* invocation leaves fewer tickets without file while there is one, and
\* submits nothing once there is none.
C29_EventualEmission ==
    /\ (call.fn = "make_issues" /\ call.reliable)
          ~> (MissingNames("make_issues") = <<>>)
    /\ []((call.fn = "make_issues" /\ call.reliable
             /\ call.run * MAX_ISSUES >= Len(tickets))
          => MissingNames("make_issues") = <<>>)
    /\ [][(Invocation("make_issues") /\ call.reliable) =>
             /\ MissingNames("make_issues") # <<>> =>
                   Len(MissingNames("make_issues")') < Len(MissingNames("make_issues"))
             /\ MissingNames("make_issues") = <<>> =>
                   /\ ret'.submitted = <<>>
                   /\ UNCHANGED <<dir, issues>>]_vars

\* the second invocation over 31 tickets has submitted the last one, and
\* every ticket has its file
C29_Witness ==
    /\ Invoked("make_issues")
    /\ call.reliable
    /\ call.run = 2
    /\ Len(tickets) > MAX_ISSUES
    /\ Len(ret.submitted) = 1
    /\ MissingNames("make_issues") = <<>>


(***************************************************************************)
(* Replay of a scan.                                                       *)
(***************************************************************************)
\* C26: after a scan that has succeeded, load over the same branch list
\* and directory succeeds and returns for every branch the results the
\* scan had for it, also for a branch without findings.
C26_ReplayRoundTrip ==
    pc = "loaded" =>
        /\ ret.status = "Ok"
        /\ \A k \in 1..Len(call.specs) :
              /\ call.specs[k] \in DOMAIN ret.value
              /\ ret.value[call.specs[k]] = call.found[call.specs[k]]

====
